---- MODULE Spec2Model ----
(***************************************************************************)
(* A model of the review-and-reconciliation engine of the onboarding       *)
(* analytics dashboard: AccuracyCalculator (src/src/accuracy_metrics.py)   *)
(* and O3AIIntegration (src/src/ai_integration.py).                        *)
(*                                                                         *)
(* Rates are Python floats in the code; here a rate is the exact fraction  *)
(* [num, den] and scores are integers in hundredths (0.8 is 80).           *)
(***************************************************************************)
EXTENDS Integers, Sequences, FiniteSets, TLC

VARIABLES
  original_df,            \* AccuracyCalculator.original_df: the rows of the CSV
  partial_match_reviews,  \* the partial-match review list handed to the calculator
  no_match_reviews,       \* the no-match review list handed to the calculator
  last_call,              \* the calculator method called last ("none" before any)
  result,                 \* what that call returned, or the exception it raised
  previous_result,        \* what the call before it returned, when a method is called twice
  current_llm_index,      \* O3AIIntegration.current_llm_index: the endpoint cursor
  llm,                    \* O3AIIntegration.llm: the deployment the active client was built for
  total_sleep_time,       \* O3AIIntegration.total_sleep_time
  api_calls_made,         \* O3AIIntegration.api_calls_made
  successful_calls,       \* O3AIIntegration.successful_calls
  failed_calls,           \* O3AIIntegration.failed_calls
  behaviour,              \* how each deployment answers: "ok", "fail" or "flaky"
  max_json_retries,       \* the max_json_retries argument of invoke_llm_with_json_retry
  worker,                 \* per calling thread: its position and locals
  cases,                  \* the cases argument of review_*_parallel
  futures,                \* future_to_case: one future per submitted case
  results,                \* the results list of review_*_parallel
  batch,                  \* the review_*_parallel call: method, max_workers, position
  pipeline,               \* run_complete_analysis: its position and its skip flags
  parser                  \* robust_json_parse: its response_text and what it returned

calcVars == <<original_df, partial_match_reviews, no_match_reviews, last_call, result,
              previous_result>>
llmVars == <<current_llm_index, llm, total_sleep_time, api_calls_made, successful_calls,
             failed_calls, behaviour, max_json_retries, worker>>
batchVars == <<cases, futures, results, batch, pipeline, parser>>
vars == <<calcVars, llmVars, batchVars>>

(***************************************************************************)
(* Bounds of the model.                                                    *)
(***************************************************************************)
MaxPatients == 2
MaxReviews == 2
MaxAnalysisLen == 6
MaxCases == 2
MaxPoolWorkers == 2
\* The fragments a response text is put together from.
MaxFragments == 3
\* The unique missed codes handed to classify_missed_codes.
MaxMissedCodes == 2
\* The code configures six deployments (llm_deployments); its loops are
\* written for len(self.llm_deployments), which the model keeps small.
NumDeployments == 2

(***************************************************************************)
(* Program constants.                                                      *)
(***************************************************************************)
PromoteScoreThreshold == 80
LowErrorRatePct == 20
DefaultScore == 50
max_cycles == 3
SweepSleepSeconds == 10
DefaultMaxJsonRetries == 2

NoneVal == "<none>"

\* Python truthiness of an optional string: None and "" are falsy.
Truthy(v) == v \notin {NoneVal, ""}

(***************************************************************************)
(* Fractions.                                                              *)
(***************************************************************************)
Div(n, d) == [num |-> n, den |-> d]
RateEq(a, b) == a.num * b.den = b.num * a.den
RateAdd(a, b) == [num |-> a.num * b.den + b.num * a.den, den |-> a.den * b.den]
RateSub(a, b) == [num |-> a.num * b.den - b.num * a.den, den |-> a.den * b.den]

RECURSIVE SeqSum(_)
SeqSum(s) == IF s = <<>> THEN 0 ELSE Head(s) + SeqSum(Tail(s))

\* An exception leaving a method, and a normal return.
Raise(e) == [raised |-> e]
Returned(r) == r.raised = "none"
\* Nothing returned yet; also the empty dict.
NoResult == [raised |-> "none"]

(***************************************************************************)
(* The dataset.  A row holds 'Patient ID', 'Match Result' and the two code *)
(* cells 'SMC Coded' and 'Rapidclaims Codes'; a cell is the sequence of    *)
(* its comma-separated, trimmed tokens ("" is an empty token).             *)
(***************************************************************************)
MatchResults == {"Complete Match", "Partial Match", "No Match"}

parse_codes(cell) == {cell[i] : i \in 1..Len(cell)} \ {""}

CountMatch(df, m) == Cardinality({i \in 1..Len(df) : df[i].match = m})

calculate_original_accuracy_guard(total_sutherland_codes, total_ai_codes) ==
  total_sutherland_codes > 0

calculate_original_accuracy(df) ==
  LET total_patients == Len(df)
      complete_matches == CountMatch(df, "Complete Match")
      partial_matches == CountMatch(df, "Partial Match")
      no_matches == CountMatch(df, "No Match")
      total_sutherland_codes ==
        SeqSum([i \in 1..Len(df) |-> Cardinality(parse_codes(df[i].smc))])
      total_ai_codes ==
        SeqSum([i \in 1..Len(df) |-> Cardinality(parse_codes(df[i].rc))])
      total_missed_codes ==
        SeqSum([i \in 1..Len(df) |->
                  Cardinality(parse_codes(df[i].smc) \ parse_codes(df[i].rc))])
      total_extra_codes ==
        SeqSum([i \in 1..Len(df) |->
                  Cardinality(parse_codes(df[i].rc) \ parse_codes(df[i].smc))])
      guarded == calculate_original_accuracy_guard(total_sutherland_codes, total_ai_codes)
  IN  IF total_patients = 0 THEN Raise("ZeroDivisionError")
      ELSE IF guarded /\ total_ai_codes = 0 THEN Raise("ZeroDivisionError")
      ELSE [raised |-> "none",
            total_patients |-> total_patients,
            complete_matches |-> complete_matches,
            partial_matches |-> partial_matches,
            no_matches |-> no_matches,
            complete_match_rate |-> Div(complete_matches, total_patients),
            partial_match_rate |-> Div(partial_matches, total_patients),
            no_match_rate |-> Div(no_matches, total_patients),
            total_sutherland_codes |-> total_sutherland_codes,
            total_ai_codes |-> total_ai_codes,
            total_missed_codes |-> total_missed_codes,
            total_extra_codes |-> total_extra_codes,
            code_level_accuracy |->
              IF guarded THEN Div(total_ai_codes - total_missed_codes, total_ai_codes)
              ELSE Div(0, 1)]

(***************************************************************************)
(* Adjudication results.  A result is a dict in the code; here a record    *)
(* whose has_error says whether the 'error' key is present.  raw_response  *)
(* is described by what json.loads makes of it once the control characters *)
(* are stripped: absent or empty, unparsable, or a JSON object (parsed),   *)
(* which has an 'analysis' key or not.                                     *)
(***************************************************************************)
NoRaw == [kind |-> "absent"]
UnparsableRaw == [kind |-> "unparsable"]
JsonRaw(has_analysis, parsed) ==
  [kind |-> "json", has_analysis |-> has_analysis, parsed |-> parsed]

NoScores == [present |-> FALSE, sutherland_score |-> 0, ai_score |-> 0]
Scores(s, a) == [present |-> TRUE, sutherland_score |-> s, ai_score |-> a]

CodeAnalysis(s, a, sc, ac) ==
  [sutherland_code |-> s, ai_code |-> a,
   is_sutherland_correct |-> sc, is_ai_correct |-> ac]

Review(pid, analysis, scores) ==
  [has_error |-> FALSE, raw_response |-> NoRaw, patient_id |-> pid,
   analysis |-> analysis, coding_accuracy_score |-> scores]

ErrorResult(pid, raw) ==
  [has_error |-> TRUE, raw_response |-> raw, patient_id |-> pid,
   analysis |-> <<>>, coding_accuracy_score |-> NoScores]

\* A result the model produced in the wrong shape.  defect names what is
\* wrong with it: the result itself is not a dict ("not_a_dict"), its
\* 'analysis' is null ("analysis_null"), an entry of 'analysis' is not a dict
\* ("entry_not_dict"), its 'coding_accuracy_score' is not a dict
\* ("score_not_dict"), or, in a no-match review, its 'match_potential' is not
\* a dict ("match_potential_not_dict").  A well-formed result has no defect.
WithDefect(review, defect) ==
  [x \in (DOMAIN review) \cup {"defect"} |-> IF x = "defect" THEN defect ELSE review[x]]
Defect(review) == IF "defect" \in DOMAIN review THEN review.defect ELSE "none"

\* The exception the body of the partial-match loop raises on a matched
\* review: .get on a value that is no dict, or iteration over None.
ReviewDefectError(review) ==
  CASE Defect(review) = "score_not_dict" -> "AttributeError"
    [] Defect(review) = "analysis_null" -> "TypeError"
    [] Defect(review) = "entry_not_dict" -> "AttributeError"
    [] OTHER -> "none"

\* review.get('coding_accuracy_score', {}).get(key, 0.5)
sutherland_score_of(review) ==
  IF review.coding_accuracy_score.present
  THEN review.coding_accuracy_score.sutherland_score ELSE DefaultScore
ai_score_of(review) ==
  IF review.coding_accuracy_score.present
  THEN review.coding_accuracy_score.ai_score ELSE DefaultScore

\* The recovery pass on an error-marked result: the review the loop goes on
\* with, or usable = FALSE for `continue`.
RecoverRawResponse(review) ==
  IF Defect(review) = "not_a_dict" THEN [usable |-> TRUE, review |-> review]
  ELSE IF ~review.has_error THEN [usable |-> TRUE, review |-> review]
  ELSE IF review.raw_response.kind = "json" /\ review.raw_response.has_analysis
       THEN [usable |-> TRUE, review |-> review.raw_response.parsed]
       ELSE [usable |-> FALSE, review |-> review]

\* The index of the first row whose 'Patient ID' equals patient_id as a string
\* (0 when there is none).
FindPatient(df, patient_id) ==
  LET hits == {i \in 1..Len(df) : df[i].patient_id = patient_id}
  IN  IF hits = {} THEN 0 ELSE CHOOSE i \in hits : \A j \in hits : i <= j

PutCode(d, k, v) == [x \in (DOMAIN d) \cup {k} |-> IF x = k THEN v ELSE d[x]]
NoCorrectedCodes == [x \in {} |-> ""]

\* One pass of the `for code_analysis in analysis` loop body: the tallies of
\* this patient and the corrected_codes mapping after the entry.
\* The loop body with the substitution branch not asking whether the AI code
\* is right.
ClassifyCodeAnalysisAnySubstitution(t, code_analysis) ==
  LET sutherland_code == code_analysis.sutherland_code
      ai_code == code_analysis.ai_code
      is_sutherland_correct == code_analysis.is_sutherland_correct
      is_ai_correct == code_analysis.is_ai_correct
      counted == [t EXCEPT !.total_codes = @ + 1]
  IN  IF Truthy(sutherland_code) /\ ~Truthy(ai_code)
      THEN IF ~is_sutherland_correct
           THEN [counted EXCEPT !.sutherland_errors = @ + 1,
                                !.corrected_codes =
                                   PutCode(@, sutherland_code, "should_not_code")]
           ELSE counted
      ELSE IF Truthy(ai_code) /\ ~Truthy(sutherland_code)
      THEN IF is_ai_correct
           THEN [counted EXCEPT !.extra_codes = @ + 1,
                                !.ai_corrections = @ + 1,
                                !.corrected_codes = PutCode(@, ai_code, "should_code")]
           ELSE [counted EXCEPT !.extra_codes = @ + 1]
      ELSE IF Truthy(sutherland_code) /\ Truthy(ai_code) /\ sutherland_code # ai_code
      THEN IF ~is_sutherland_correct
           THEN [counted EXCEPT !.sutherland_errors = @ + 1,
                                !.ai_corrections = @ + 1,
                                !.corrected_codes = PutCode(@, sutherland_code, ai_code)]
           ELSE counted
      ELSE counted
ClassifyCodeAnalysis(t, code_analysis) ==
  LET sutherland_code == code_analysis.sutherland_code
      ai_code == code_analysis.ai_code
      is_sutherland_correct == code_analysis.is_sutherland_correct
      is_ai_correct == code_analysis.is_ai_correct
      counted == [t EXCEPT !.total_codes = @ + 1]
  IN  IF Truthy(sutherland_code) /\ ~Truthy(ai_code)
      THEN IF ~is_sutherland_correct
           THEN [counted EXCEPT !.sutherland_errors = @ + 1,
                                !.corrected_codes =
                                   PutCode(@, sutherland_code, "should_not_code")]
           ELSE counted
      ELSE IF Truthy(ai_code) /\ ~Truthy(sutherland_code)
      THEN IF is_ai_correct
           THEN [counted EXCEPT !.extra_codes = @ + 1,
                                !.ai_corrections = @ + 1,
                                !.corrected_codes = PutCode(@, ai_code, "should_code")]
           ELSE [counted EXCEPT !.extra_codes = @ + 1]
      ELSE IF Truthy(sutherland_code) /\ Truthy(ai_code) /\ sutherland_code # ai_code
      THEN IF ~is_sutherland_correct /\ is_ai_correct
           THEN [counted EXCEPT !.sutherland_errors = @ + 1,
                                !.ai_corrections = @ + 1,
                                !.corrected_codes = PutCode(@, sutherland_code, ai_code)]
           ELSE counted
      ELSE counted

RECURSIVE AnalyzeCodes(_, _)
AnalyzeCodes(t, analysis) ==
  IF analysis = <<>> THEN t
  ELSE AnalyzeCodes(ClassifyCodeAnalysis(t, Head(analysis)), Tail(analysis))

\* The promotion decision: the rule that fires, "" when none does.
\* Rule (i) with the threshold comparison made inclusive.
ScoreRuleInclusive(ai_score, sutherland_score) ==
  ai_score >= PromoteScoreThreshold /\ ai_score > sutherland_score
ScoreRule(ai_score, sutherland_score) ==
  ai_score > PromoteScoreThreshold /\ ai_score > sutherland_score
CorrectionsRule(patient_ai_corrections, patient_sutherland_errors) ==
  patient_ai_corrections > patient_sutherland_errors
ErrorRateRule(patient_sutherland_errors, patient_total_codes) ==
  patient_total_codes > 0
  /\ patient_sutherland_errors * 100 < LowErrorRatePct * patient_total_codes

PromotionReason(ai_score, sutherland_score, t) ==
  IF ScoreRule(ai_score, sutherland_score) THEN "AI coding more accurate"
  ELSE IF CorrectionsRule(t.ai_corrections, t.sutherland_errors)
       THEN "AI corrections > Sutherland errors"
  ELSE IF ErrorRateRule(t.sutherland_errors, t.total_codes)
       THEN "Low Sutherland error rate"
  ELSE ""

PromotedMatchResult == "Complete Match"

\* A promotion that flips the category instead of setting it.
PromoteRowToggle(row) ==
  [row EXCEPT !.match = IF @ = PromotedMatchResult THEN "Partial Match"
                        ELSE PromotedMatchResult]
\* reviewed_df.loc[patient_idx, 'Match Result'] = 'Complete Match'
PromoteRow(row) == [row EXCEPT !.match = PromotedMatchResult]

\* One pass of the `for review in partial_match_reviews` loop body.
ReconcileReview(df, acc, review0) ==
  LET rec == RecoverRawResponse(review0)
      review == rec.review
      patient_id == review.patient_id
      patient_idx == FindPatient(df, patient_id)
  IN  IF acc.raised # "none" THEN acc
      ELSE IF Defect(review) = "not_a_dict"
      THEN [acc EXCEPT !.raised = "AttributeError"]
      ELSE IF ~rec.usable \/ ~Truthy(patient_id) \/ patient_idx = 0 THEN acc
      ELSE IF ReviewDefectError(review) # "none"
      THEN [acc EXCEPT !.raised = ReviewDefectError(review)]
      ELSE
        LET t == AnalyzeCodes([total_codes |-> 0, sutherland_errors |-> 0,
                               ai_corrections |-> 0, extra_codes |-> 0,
                               corrected_codes |-> acc.corrected_codes],
                              review.analysis)
            sutherland_score == sutherland_score_of(review)
            ai_score == ai_score_of(review)
            reason == PromotionReason(ai_score, sutherland_score, t)
            tallied ==
              [acc EXCEPT !.total_reviewed_codes = @ + t.total_codes,
                          !.sutherland_errors = @ + t.sutherland_errors,
                          !.ai_corrections = @ + t.ai_corrections,
                          !.extra_codes_by_ai = @ + t.extra_codes,
                          !.corrected_codes = t.corrected_codes]
        IN  IF reason = "" THEN tallied
            ELSE [tallied EXCEPT
                    !.changes_made = Append(@,
                       [patient_id |-> patient_id,
                        original_match |-> "Partial Match",
                        new_match |-> "Complete Match (Post-Review)",
                        reason |-> reason,
                        sutherland_errors |-> t.sutherland_errors,
                        ai_corrections |-> t.ai_corrections,
                        extra_codes |-> t.extra_codes,
                        sutherland_score |-> sutherland_score,
                        ai_score |-> ai_score]),
                    !.reviewed_df[patient_idx] = PromoteRow(@),
                    !.partial_to_complete = @ + 1]

\* The quotient with a fallback of 0 instead of 1.
ManualCodingAccuracyZeroFallback(total_reviewed_codes, sutherland_errors) ==
  IF total_reviewed_codes > 0
  THEN Div(total_reviewed_codes - sutherland_errors, total_reviewed_codes)
  ELSE Div(0, 1)
\* (total_reviewed_codes - sutherland_errors) / total_reviewed_codes
\* if total_reviewed_codes > 0 else 1.0
ManualCodingAccuracy(total_reviewed_codes, sutherland_errors) ==
  IF total_reviewed_codes > 0
  THEN Div(total_reviewed_codes - sutherland_errors, total_reviewed_codes)
  ELSE Div(1, 1)

RECURSIVE ReconcileReviews(_, _, _)
ReconcileReviews(df, acc, reviews) ==
  IF reviews = <<>> THEN acc
  ELSE ReconcileReviews(df, ReconcileReview(df, acc, Head(reviews)), Tail(reviews))

calculate_post_ai_review_accuracy(df, reviews) ==
  LET acc == ReconcileReviews(df,
               [raised |-> "none",
                reviewed_df |-> df, changes_made |-> <<>>, partial_to_complete |-> 0,
                sutherland_errors |-> 0, total_reviewed_codes |-> 0,
                ai_corrections |-> 0, extra_codes_by_ai |-> 0,
                corrected_codes |-> NoCorrectedCodes],
               reviews)
      reviewed_df == acc.reviewed_df
      new_complete_matches == CountMatch(reviewed_df, "Complete Match")
      new_partial_matches == CountMatch(reviewed_df, "Partial Match")
      new_no_matches == CountMatch(reviewed_df, "No Match")
      total_patients == Len(reviewed_df)
      original == calculate_original_accuracy(df)
  IN  IF acc.raised # "none" THEN Raise(acc.raised)
      ELSE IF total_patients = 0 THEN Raise("ZeroDivisionError")
      ELSE IF ~Returned(original) THEN original
      ELSE [raised |-> "none",
            post_review_metrics |->
              [complete_matches |-> new_complete_matches,
               partial_matches |-> new_partial_matches,
               no_matches |-> new_no_matches,
               complete_match_rate |-> Div(new_complete_matches, total_patients),
               partial_match_rate |-> Div(new_partial_matches, total_patients),
               no_match_rate |-> Div(new_no_matches, total_patients)],
            improvements |->
              [partial_to_complete_conversions |-> acc.partial_to_complete,
               accuracy_improvement |->
                 Div(new_complete_matches - original.complete_matches, total_patients)],
            manual_coding_analysis |->
              [total_reviewed_codes |-> acc.total_reviewed_codes,
               sutherland_errors |-> acc.sutherland_errors,
               manual_coding_accuracy |->
                 ManualCodingAccuracy(acc.total_reviewed_codes, acc.sutherland_errors),
               ai_corrections |-> acc.ai_corrections,
               extra_codes_by_ai |-> acc.extra_codes_by_ai,
               corrected_codes |-> acc.corrected_codes],
            changes_made |-> acc.changes_made,
            reviewed_dataframe |-> reviewed_df]

(***************************************************************************)
(* The other layers computed from the partial-match reviews.               *)
(***************************************************************************)
RECURSIVE CorrectedLoop(_, _)
CorrectedLoop(m, analysis) ==
  IF analysis = <<>> THEN m
  ELSE LET code_analysis == Head(analysis)
           counted == [m EXCEPT !.total_codes_reviewed = @ + 1]
       IN  CorrectedLoop(
             IF code_analysis.is_ai_correct
             THEN [counted EXCEPT !.ai_correct_codes = @ + 1]
             ELSE IF code_analysis.is_sutherland_correct
                  THEN [counted EXCEPT !.sutherland_correct_codes = @ + 1]
                  ELSE counted,
             Tail(analysis))

RECURSIVE CorrectedReviews(_, _)
CorrectedReviews(m, reviews) ==
  IF reviews = <<>> THEN m
  ELSE CorrectedReviews(
         IF Head(reviews).has_error THEN m
         ELSE CorrectedLoop(m, Head(reviews).analysis),
         Tail(reviews))

calculate_corrected_code_accuracy(reviews) ==
  LET m == CorrectedReviews([total_codes_reviewed |-> 0, ai_correct_codes |-> 0,
                             sutherland_correct_codes |-> 0], reviews)
  IN  [raised |-> "none",
       total_codes_reviewed |-> m.total_codes_reviewed,
       ai_correct_codes |-> m.ai_correct_codes,
       sutherland_correct_codes |-> m.sutherland_correct_codes,
       corrected_accuracy |->
         IF m.total_codes_reviewed > 0
         THEN Div(m.ai_correct_codes + m.sutherland_correct_codes, m.total_codes_reviewed)
         ELSE Div(0, 1),
       improvement_over_original |-> Div(0, 1)]

\* The difference taken in both directions.
MissedCodesEitherWay(sutherland_codes, ai_codes) ==
  (sutherland_codes \ ai_codes) \cup (ai_codes \ sutherland_codes)
\* missed_codes = sutherland_codes - ai_codes
MissedCodes(sutherland_codes, ai_codes) == sutherland_codes \ ai_codes
\* extra_codes = ai_codes - sutherland_codes
ExtraCodes(sutherland_codes, ai_codes) == ai_codes \ sutherland_codes
\* correct_codes = sutherland_codes & ai_codes
CorrectCodes(sutherland_codes, ai_codes) == sutherland_codes \cap ai_codes

calculate_pre_review_code_accuracy(df) ==
  LET sutherland_codes(i) == parse_codes(df[i].smc)
      ai_codes(i) == parse_codes(df[i].rc)
      total_sutherland_codes ==
        SeqSum([i \in 1..Len(df) |-> Cardinality(sutherland_codes(i))])
      total_ai_codes == SeqSum([i \in 1..Len(df) |-> Cardinality(ai_codes(i))])
      correctly_coded_by_ai ==
        SeqSum([i \in 1..Len(df) |->
                  Cardinality(CorrectCodes(sutherland_codes(i), ai_codes(i)))])
      missed_by_ai ==
        SeqSum([i \in 1..Len(df) |->
                  Cardinality(MissedCodes(sutherland_codes(i), ai_codes(i)))])
      extra_by_ai ==
        SeqSum([i \in 1..Len(df) |->
                  Cardinality(ExtraCodes(sutherland_codes(i), ai_codes(i)))])
  IN  [raised |-> "none",
       total_sutherland_codes |-> total_sutherland_codes,
       total_ai_codes |-> total_ai_codes,
       correctly_coded_by_ai |-> correctly_coded_by_ai,
       missed_by_ai |-> missed_by_ai,
       extra_by_ai |-> extra_by_ai,
       overall_accuracy |->
         IF total_sutherland_codes > 0
         THEN Div(correctly_coded_by_ai, total_sutherland_codes) ELSE Div(0, 1),
       miss_rate |->
         IF total_sutherland_codes > 0
         THEN Div(missed_by_ai, total_sutherland_codes) ELSE Div(0, 1),
       extra_rate |->
         IF total_ai_codes > 0 THEN Div(extra_by_ai, total_ai_codes) ELSE Div(0, 1),
       patient_level_data |->
         [i \in 1..Len(df) |->
            [patient_id |-> df[i].patient_id,
             sutherland_codes |-> Cardinality(sutherland_codes(i)),
             ai_codes |-> Cardinality(ai_codes(i)),
             correct_codes |->
               Cardinality(CorrectCodes(sutherland_codes(i), ai_codes(i))),
             missed_codes |-> Cardinality(MissedCodes(sutherland_codes(i), ai_codes(i))),
             extra_codes |-> Cardinality(ExtraCodes(sutherland_codes(i), ai_codes(i)))]]]

RECURSIVE PostReviewCodeLoop(_, _)
PostReviewCodeLoop(m, analysis) ==
  IF analysis = <<>> THEN m
  ELSE LET code_analysis == Head(analysis)
           is_sutherland_correct == code_analysis.is_sutherland_correct
           is_ai_correct == code_analysis.is_ai_correct
       IN  PostReviewCodeLoop(
             [m EXCEPT
                !.codes_reviewed = @ + 1,
                !.ai_correct_decisions = IF is_ai_correct THEN @ + 1 ELSE @,
                !.sutherland_errors_found = IF ~is_sutherland_correct THEN @ + 1 ELSE @,
                !.ai_corrections_accepted =
                   IF is_ai_correct /\ ~is_sutherland_correct THEN @ + 1 ELSE @],
             Tail(analysis))

RECURSIVE PostReviewCodeReviews(_, _)
PostReviewCodeReviews(m, reviews) ==
  IF reviews = <<>> THEN m
  ELSE LET rec == RecoverRawResponse(Head(reviews))
       IN  PostReviewCodeReviews(
             IF ~rec.usable THEN m
             ELSE LET before == m.codes_reviewed
                      after == PostReviewCodeLoop(m, rec.review.analysis)
                  IN  IF after.codes_reviewed > before
                      THEN [after EXCEPT !.patient_corrections =
                              Append(@, [patient_id |-> rec.review.patient_id,
                                         codes_reviewed |-> after.codes_reviewed - before])]
                      ELSE after,
             Tail(reviews))

calculate_post_review_code_accuracy(df, reviews) ==
  LET pre_review == calculate_pre_review_code_accuracy(df)
      m == PostReviewCodeReviews(
             [codes_reviewed |-> 0, ai_correct_decisions |-> 0,
              sutherland_errors_found |-> 0, ai_corrections_accepted |-> 0,
              patient_corrections |-> <<>>], reviews)
      improvement_in_accuracy ==
        IF pre_review.total_sutherland_codes > 0
        THEN Div(m.ai_corrections_accepted, pre_review.total_sutherland_codes)
        ELSE Div(0, 1)
  IN  [raised |-> "none",
       codes_reviewed_by_ai |-> m.codes_reviewed,
       ai_correct_decisions |-> m.ai_correct_decisions,
       sutherland_errors_found |-> m.sutherland_errors_found,
       ai_corrections_accepted |-> m.ai_corrections_accepted,
       corrected_accuracy |->
         IF m.codes_reviewed > 0
         THEN Div((m.codes_reviewed - m.sutherland_errors_found)
                    + m.ai_corrections_accepted, m.codes_reviewed)
         ELSE Div(0, 1),
       improvement_in_accuracy |-> improvement_in_accuracy,
       error_reduction_rate |->
         IF m.codes_reviewed > 0
         THEN Div(m.sutherland_errors_found, m.codes_reviewed) ELSE Div(0, 1),
       net_improvement |-> improvement_in_accuracy,
       post_review_accuracy |->
         RateAdd(pre_review.overall_accuracy, improvement_in_accuracy),
       patient_corrections |-> m.patient_corrections]

\* A no-match review: the 'error' key, the two match_potential flags and the scores.
NoMatchReview(has_error, partial, complete, scores) ==
  [has_error |-> has_error, could_be_partial_match |-> partial,
   could_be_complete_match |-> complete, coding_accuracy_score |-> scores]

\* The exception the body of a no-match loop raises on a review without the
\* 'error' key.
NoMatchDefectError(review) ==
  IF Defect(review) \in {"not_a_dict", "match_potential_not_dict", "score_not_dict"}
  THEN "AttributeError" ELSE "none"

\* The `for review in no_match_reviews` loop of analyze_no_match_reviews.
RECURSIVE AnalyzeNoMatchLoop(_, _)
AnalyzeNoMatchLoop(c, reviews) ==
  IF reviews = <<>> \/ c.raised # "none" THEN c
  ELSE LET review == Head(reviews)
           sutherland_score == sutherland_score_of(review)
           ai_score == ai_score_of(review)
       IN  AnalyzeNoMatchLoop(
             IF Defect(review) # "not_a_dict" /\ review.has_error THEN c
             ELSE IF NoMatchDefectError(review) # "none"
             THEN [c EXCEPT !.raised = NoMatchDefectError(review)]
             ELSE [c EXCEPT
                     !.to_partial_match =
                        IF review.could_be_partial_match THEN @ + 1 ELSE @,
                     !.to_complete_match =
                        IF review.could_be_complete_match THEN @ + 1 ELSE @,
                     !.potential_upgrades =
                        @ + (IF review.could_be_partial_match THEN 1 ELSE 0)
                          + (IF review.could_be_complete_match THEN 1 ELSE 0),
                     !.ai_better_cases =
                        IF ai_score > sutherland_score THEN @ + 1 ELSE @,
                     !.sutherland_better_cases =
                        IF sutherland_score > ai_score THEN @ + 1 ELSE @],
             Tail(reviews))

\* successful_reviews counting every result of the list.
analyze_no_match_reviews_counting_errors(reviews) ==
  LET total_no_match_cases == Len(reviews)
      successful_reviews ==
        Len(reviews)
      c == AnalyzeNoMatchLoop([raised |-> "none", potential_upgrades |-> 0,
                               to_partial_match |-> 0, to_complete_match |-> 0,
                               ai_better_cases |-> 0, sutherland_better_cases |-> 0],
                              reviews)
  IN  IF c.raised # "none" THEN Raise(c.raised)
      ELSE [raised |-> "none",
            total_no_match_cases |-> total_no_match_cases,
            successful_reviews |-> successful_reviews,
            potential_upgrades |-> c.potential_upgrades,
            upgrade_potential |-> [to_partial_match |-> c.to_partial_match,
                                   to_complete_match |-> c.to_complete_match],
            ai_better_cases |-> c.ai_better_cases,
            sutherland_better_cases |-> c.sutherland_better_cases,
            review_success_rate |->
              IF total_no_match_cases > 0
              THEN Div(successful_reviews, total_no_match_cases) ELSE Div(0, 1)]
analyze_no_match_reviews(reviews) ==
  LET total_no_match_cases == Len(reviews)
      successful_reviews ==
        Cardinality({k \in 1..Len(reviews) :
                       Defect(reviews[k]) = "not_a_dict" \/ ~reviews[k].has_error})
      c == AnalyzeNoMatchLoop([raised |-> "none", potential_upgrades |-> 0,
                               to_partial_match |-> 0, to_complete_match |-> 0,
                               ai_better_cases |-> 0, sutherland_better_cases |-> 0],
                              reviews)
  IN  IF c.raised # "none" THEN Raise(c.raised)
      ELSE [raised |-> "none",
            total_no_match_cases |-> total_no_match_cases,
            successful_reviews |-> successful_reviews,
            potential_upgrades |-> c.potential_upgrades,
            upgrade_potential |-> [to_partial_match |-> c.to_partial_match,
                                   to_complete_match |-> c.to_complete_match],
            ai_better_cases |-> c.ai_better_cases,
            sutherland_better_cases |-> c.sutherland_better_cases,
            review_success_rate |->
              IF total_no_match_cases > 0
              THEN Div(successful_reviews, total_no_match_cases) ELSE Div(0, 1)]

\* The two upgrade flags tested by two independent `if`s.
CountConversionBothFlags(c, review) ==
  IF review.has_error THEN c
  ELSE LET complete == IF review.could_be_complete_match THEN 1 ELSE 0
           partial == IF review.could_be_partial_match THEN 1 ELSE 0
       IN  [c EXCEPT !.cases_reviewed = @ + 1,
                     !.potential_complete_matches = @ + complete,
                     !.potential_partial_matches = @ + partial,
                     !.total_potential_upgrades = @ + complete + partial]
\* One pass of the `for review in no_match_reviews` loop body of
\* calculate_unified_post_review_accuracy: `if ... elif ...` on the two flags.
CountConversion(c, review) ==
  IF review.has_error THEN c
  ELSE IF review.could_be_complete_match
  THEN [c EXCEPT !.cases_reviewed = @ + 1,
                 !.potential_complete_matches = @ + 1,
                 !.total_potential_upgrades = @ + 1]
  ELSE IF review.could_be_partial_match
  THEN [c EXCEPT !.cases_reviewed = @ + 1,
                 !.potential_partial_matches = @ + 1,
                 !.total_potential_upgrades = @ + 1]
  ELSE [c EXCEPT !.cases_reviewed = @ + 1]

RECURSIVE NoMatchConversions(_, _)
NoMatchConversions(c, reviews) ==
  IF reviews = <<>> THEN c
  ELSE NoMatchConversions(CountConversion(c, Head(reviews)), Tail(reviews))

calculate_unified_post_review_accuracy(df, reviews, nm_reviews) ==
  LET original_metrics == calculate_original_accuracy(df)
      pre_review_code == calculate_pre_review_code_accuracy(df)
      partial_match_improvements == calculate_post_review_code_accuracy(df, reviews)
      c == NoMatchConversions(
             [cases_reviewed |-> 0, potential_complete_matches |-> 0,
              potential_partial_matches |-> 0, total_potential_upgrades |-> 0],
             nm_reviews)
  IN  IF ~Returned(original_metrics) THEN original_metrics
      ELSE
        LET total_patients == original_metrics.total_patients
            code_level_improvement == partial_match_improvements.net_improvement
        IN  [raised |-> "none",
             no_match_details |-> c,
             complete_match_rate |->
               RateAdd(original_metrics.complete_match_rate,
                       Div(c.potential_complete_matches, total_patients)),
             partial_match_rate |->
               RateAdd(original_metrics.partial_match_rate,
                       Div(c.potential_partial_matches, total_patients)),
             no_match_rate |->
               RateSub(original_metrics.no_match_rate,
                       Div(c.total_potential_upgrades, total_patients)),
             code_level_accuracy |->
               RateAdd(pre_review_code.overall_accuracy, code_level_improvement),
             chart_level_improvement |-> Div(c.total_potential_upgrades, total_patients),
             code_level_improvement |-> code_level_improvement,
             codes_corrected |-> partial_match_improvements.ai_corrections_accepted,
             codes_reviewed |-> partial_match_improvements.codes_reviewed_by_ai]

\* calculate_code_importance_metrics and _count_important_codes_in_dataset
\* count the classification results by their 'classification'.
CountClassified(classification_results, c) ==
  Cardinality({k \in 1..Len(classification_results) :
                 classification_results[k].classification = c})

\* The first of the parts that raised, in the order they are computed.
RECURSIVE FirstRaised(_)
FirstRaised(parts) ==
  IF parts = <<>> THEN "none"
  ELSE IF ~Returned(Head(parts)) THEN Head(parts).raised
  ELSE FirstRaised(Tail(parts))

\* The dictionary calculate_comprehensive_metrics builds from its parts.
ComprehensiveMetrics(classification_results, parts) ==
  LET original_metrics == parts[1]
      post_review == parts[2]
      corrected_code_metrics == parts[3]
      pre_review_code_accuracy == parts[4]
      post_review_code_accuracy == parts[5]
      unified_post_review == parts[6]
      no_match_analysis == parts[7]
      important_missed == CountClassified(classification_results, "important")
      unimportant_missed == CountClassified(classification_results, "unimportant")
      raised == FirstRaised(parts)
      total_important_codes == CountClassified(classification_results, "important")
      total_unimportant_codes ==
        original_metrics.total_sutherland_codes - total_important_codes
  IN  IF raised # "none" THEN Raise(raised)
      ELSE [raised |-> "none",
            original_accuracy |-> original_metrics,
            important_code_accuracy |->
              IF total_important_codes > 0
              THEN Div(total_important_codes - important_missed, total_important_codes)
              ELSE Div(1, 1),
            unimportant_code_accuracy |->
              IF total_unimportant_codes > 0
              THEN Div(total_unimportant_codes - unimportant_missed,
                       total_unimportant_codes)
              ELSE Div(1, 1),
            post_ai_review |-> post_review.post_review_metrics,
            improvements |-> post_review.improvements,
            manual_coding_analysis |-> post_review.manual_coding_analysis,
            corrected_code_accuracy |-> corrected_code_metrics,
            detailed_changes |-> post_review.changes_made,
            pre_review_code_accuracy |-> pre_review_code_accuracy,
            post_review_code_accuracy |-> post_review_code_accuracy,
            unified_post_review_accuracy |-> unified_post_review,
            no_match_analysis |-> no_match_analysis]

calculate_comprehensive_metrics(df, classification_results, reviews, nm_reviews) ==
  ComprehensiveMetrics(
    classification_results,
    <<calculate_original_accuracy(df),
      calculate_post_ai_review_accuracy(df, reviews),
      calculate_corrected_code_accuracy(reviews),
      calculate_pre_review_code_accuracy(df),
      calculate_post_review_code_accuracy(df, reviews),
      calculate_unified_post_review_accuracy(df, reviews, nm_reviews),
      IF nm_reviews = <<>> THEN NoResult ELSE analyze_no_match_reviews(nm_reviews)>>)

(***************************************************************************)
(* The inputs the model draws from.                                        *)
(***************************************************************************)
PatientIds == <<"1", "2", "3", "4">>
UnknownPatientId == "9"

Row(i, match, cells) ==
  [patient_id |-> PatientIds[i], match |-> match, smc |-> cells[1], rc |-> cells[2]]

\* Every dataset of at most MaxPatients rows whose rows draw their Match
\* Result from MatchResults and their two code cells from cell_pairs.
Datasets(cell_pairs) ==
  UNION {{[i \in 1..n |-> Row(i, f[i][1], f[i][2])] :
            f \in [1..n -> MatchResults \X cell_pairs]} : n \in 0..MaxPatients}

CodeCells == {<<>>, <<"A">>, <<"A", "B">>, <<"B", "", "B">>, <<"A", "B", "C">>}

ReviewCellPairs == {<< <<>>, <<>> >>, << <<"A", "B">>, <<"A">> >>}

CodeAnalyses ==
  {CodeAnalysis(s, a, sc, ac) :
     s \in {NoneVal, "A"}, a \in {NoneVal, "A", "B"}, sc \in BOOLEAN, ac \in BOOLEAN}

BaselineError == CodeAnalysis("A", NoneVal, FALSE, FALSE)
BaselineRight == CodeAnalysis("A", NoneVal, TRUE, FALSE)
AICorrection == CodeAnalysis(NoneVal, "B", FALSE, TRUE)
Substitution == CodeAnalysis("A", "B", FALSE, TRUE)

\* One baseline error among n adjudicated codes.
LongAnalysis(n) == [i \in 1..n |-> IF i = 1 THEN BaselineError ELSE BaselineRight]

Analyses ==
  {<<>>} \cup {<<e>> : e \in CodeAnalyses}
  \cup {<<e, f>> : e \in {BaselineError, AICorrection, Substitution},
                   f \in {BaselineError, AICorrection, BaselineRight}}
  \cup {LongAnalysis(n) : n \in (MaxAnalysisLen - 1)..MaxAnalysisLen}

ScoreChoices ==
  {NoScores, Scores(90, 95), Scores(30, 80), Scores(95, 90), Scores(90, 90)}

RichReviews ==
  {Review(pid, an, sc) :
     pid \in {NoneVal, "1", UnknownPatientId}, an \in Analyses, sc \in ScoreChoices}

ErrorResults ==
  {ErrorResult("1", raw) :
     raw \in {NoRaw, UnparsableRaw}
             \cup {JsonRaw(b, Review(pid, <<Substitution>>, Scores(90, 95))) :
                     b \in BOOLEAN, pid \in {"1", UnknownPatientId}}}

CoreReviews ==
  {Review("1", <<AICorrection>>, Scores(90, 95)),
   Review("1", <<BaselineError>>, NoScores),
   Review("2", <<Substitution, AICorrection>>, NoScores),
   Review(UnknownPatientId, <<AICorrection>>, Scores(90, 95)),
   Review("", <<BaselineError>>, NoScores),
   ErrorResult("1", JsonRaw(TRUE, Review("1", <<Substitution>>, NoScores)))}

CoreReviewLists == UNION {[1..n -> CoreReviews] : n \in 0..MaxReviews}

(***************************************************************************)
(* The calculator: AccuracyCalculator(original_data_file) reads the        *)
(* dataset; each method is then called with the stored dataset and the     *)
(* review lists.                                                           *)
(***************************************************************************)

\* The runs about the calculator alone leave the LLM integration untouched.
LLMUnused ==
  /\ current_llm_index = 0
  /\ llm = 0
  /\ total_sleep_time = 0
  /\ api_calls_made = 0
  /\ successful_calls = 0
  /\ failed_calls = 0
  /\ behaviour = <<>>
  /\ max_json_retries = DefaultMaxJsonRetries
  /\ worker = <<>>

\* robust_json_parse has not been called.
ParserUnused == [pc |-> "unused", response_text |-> <<>>, ret |-> NoResult]

\* run_complete_analysis has not been called.
PipelineUnused == [pc |-> "unused", skip_review |-> FALSE, skip_no_match_review |-> FALSE]

\* No review_*_parallel call is under way.
BatchUnused ==
  /\ cases = <<>>
  /\ futures = <<>>
  /\ results = <<>>
  /\ batch = [pc |-> "unused", method |-> "none", max_workers |-> 0]
  /\ pipeline = PipelineUnused
  /\ parser = ParserUnused

\* One run of the pipeline calls a method once on the stored inputs.
Call(name, value) ==
  /\ last_call = "none"
  /\ last_call' = name
  /\ result' = value
  /\ UNCHANGED <<original_df, partial_match_reviews, no_match_reviews, previous_result,
                 llmVars, batchVars>>

CalculateOriginalAccuracy ==
  Call("calculate_original_accuracy", calculate_original_accuracy(original_df))

CalculatePreReviewCodeAccuracy ==
  Call("calculate_pre_review_code_accuracy",
       calculate_pre_review_code_accuracy(original_df))

CalculatePostAIReviewAccuracy ==
  Call("calculate_post_ai_review_accuracy",
       calculate_post_ai_review_accuracy(original_df, partial_match_reviews))

CalculateCorrectedCodeAccuracy ==
  Call("calculate_corrected_code_accuracy",
       calculate_corrected_code_accuracy(partial_match_reviews))

CalculatePostReviewCodeAccuracy ==
  Call("calculate_post_review_code_accuracy",
       calculate_post_review_code_accuracy(original_df, partial_match_reviews))

CalculateUnifiedPostReviewAccuracy ==
  Call("calculate_unified_post_review_accuracy",
       calculate_unified_post_review_accuracy(original_df, partial_match_reviews,
                                              no_match_reviews))

AnalyzeNoMatchReviews ==
  Call("analyze_no_match_reviews", analyze_no_match_reviews(no_match_reviews))

\* The dataset claims: any dataset, no reviews.
InitOriginal ==
  /\ original_df \in Datasets(CodeCells \X CodeCells)
  /\ partial_match_reviews = <<>>
  /\ no_match_reviews = <<>>
  /\ last_call = "none"
  /\ result = NoResult
  /\ previous_result = NoResult
  /\ LLMUnused
  /\ BatchUnused

NextOriginal == CalculateOriginalAccuracy \/ CalculatePreReviewCodeAccuracy

SpecOriginal == InitOriginal /\ [][NextOriginal]_vars

\* The partial-match reconciliation claims: a dataset and a review list.
InitReview ==
  /\ \/ /\ original_df \in Datasets(ReviewCellPairs)
        /\ partial_match_reviews \in CoreReviewLists
     \/ /\ original_df \in {<<Row(1, m, << <<"A", "B">>, <<"A">> >>)>> : m \in MatchResults}
        /\ partial_match_reviews \in {<<r>> : r \in RichReviews \cup ErrorResults}
  /\ no_match_reviews = <<>>
  /\ last_call = "none"
  /\ result = NoResult
  /\ previous_result = NoResult
  /\ LLMUnused
  /\ BatchUnused

NextReview ==
  \/ CalculatePostAIReviewAccuracy
  \/ CalculateCorrectedCodeAccuracy
  \/ CalculatePostReviewCodeAccuracy
  \/ CalculateUnifiedPostReviewAccuracy

SpecReview == InitReview /\ [][NextReview]_vars

(***************************************************************************)
(* Claims about the reconciliation engine.                                 *)
(***************************************************************************)
PostReviewReturned ==
  last_call = "calculate_post_ai_review_accuracy" /\ Returned(result)

\* The review the loop works on for list entry k, and whether it is usable
\* and matched to a row of the dataset.
ResolvedReview(k) == RecoverRawResponse(partial_match_reviews[k]).review
UsableAt(k) == RecoverRawResponse(partial_match_reviews[k]).usable
MatchedAt(k) ==
  /\ UsableAt(k)
  /\ Truthy(ResolvedReview(k).patient_id)
  /\ \E i \in 1..Len(original_df) :
       original_df[i].patient_id = ResolvedReview(k).patient_id

TalliesAt(k) ==
  AnalyzeCodes([total_codes |-> 0, sutherland_errors |-> 0, ai_corrections |-> 0,
                extra_codes |-> 0, corrected_codes |-> NoCorrectedCodes],
               ResolvedReview(k).analysis)

\* The rule of the claim that holds first for list entry k: 1, 2, 3, or 0.
C1_RuleAt(k) ==
  LET ai == ai_score_of(ResolvedReview(k))
      baseline == sutherland_score_of(ResolvedReview(k))
      t == TalliesAt(k)
  IN  IF ai > 80 /\ ai > baseline THEN 1
      ELSE IF t.ai_corrections > t.sutherland_errors THEN 2
      ELSE IF t.total_codes >= 1 /\ 5 * t.sutherland_errors < t.total_codes THEN 3
      ELSE 0

C1_Reasons ==
  <<"AI coding more accurate", "AI corrections > Sutherland errors",
    "Low Sutherland error rate">>

\* The audit records that belong to list entry k.
C1_RecordsOf(k) ==
  {j \in 1..Len(result.changes_made) :
     /\ result.changes_made[j].patient_id = ResolvedReview(k).patient_id
     /\ result.changes_made[j].ai_score = ai_score_of(ResolvedReview(k))
     /\ result.changes_made[j].sutherland_score = sutherland_score_of(ResolvedReview(k))
     /\ result.changes_made[j].sutherland_errors = TalliesAt(k).sutherland_errors
     /\ result.changes_made[j].ai_corrections = TalliesAt(k).ai_corrections
     /\ result.changes_made[j].extra_codes = TalliesAt(k).extra_codes}

\* C1: when calculate_post_ai_review_accuracy returns, every usable review
\* matched to a patient has promoted that patient (an audit record, and the
\* patient's row no longer what it was unless it was Complete Match) if and
\* only if rule (i), (ii) or (iii) holds for it; the recorded reason is that
\* of the first rule that holds; a patient none of whose reviews satisfies a
\* rule keeps its category and has no audit record.
C1_PromotionRule ==
  PostReviewReturned =>
    /\ \A k \in 1..Len(partial_match_reviews) :
         MatchedAt(k) =>
           /\ (C1_RuleAt(k) # 0) <=> (C1_RecordsOf(k) # {})
           /\ \A j \in C1_RecordsOf(k) :
                result.changes_made[j].reason = C1_Reasons[C1_RuleAt(k)]
           /\ (C1_RuleAt(k) # 0) =>
                \A i \in 1..Len(original_df) :
                  original_df[i].patient_id = ResolvedReview(k).patient_id =>
                    result.reviewed_dataframe[i].match \notin {"Partial Match", "No Match"}
    /\ \A i \in 1..Len(original_df) :
         (\A k \in 1..Len(partial_match_reviews) :
            (MatchedAt(k) /\ ResolvedReview(k).patient_id = original_df[i].patient_id)
              => C1_RuleAt(k) = 0)
         => /\ result.reviewed_dataframe[i] = original_df[i]
            /\ \A j \in 1..Len(result.changes_made) :
                 result.changes_made[j].patient_id # original_df[i].patient_id

\* A review with a baseline error that is promoted by rule (iii) alone, and
\* another, in the same kind of state, that no rule promotes.
C1_Witness ==
  /\ PostReviewReturned
  /\ Len(partial_match_reviews) = 1
  /\ MatchedAt(1)
  /\ C1_RuleAt(1) = 3
  /\ TalliesAt(1).sutherland_errors = 1
  /\ Len(result.changes_made) = 1
  /\ result.changes_made[1].reason = "Low Sutherland error rate"

\* C2: after calculate_post_ai_review_accuracy, a patient that was not
\* Complete Match does not have the plain category "Complete Match" (the only
\* change of category is to "Complete Match (Post-Review)"), and a patient
\* that was Complete Match is unchanged and has no promotion record.
C2_OnlyPostReviewTransition ==
  PostReviewReturned =>
    \A i \in 1..Len(original_df) :
      /\ original_df[i].match # "Complete Match" =>
           /\ result.reviewed_dataframe[i].match # "Complete Match"
           /\ result.reviewed_dataframe[i].match
                \in {original_df[i].match, "Complete Match (Post-Review)"}
      /\ original_df[i].match = "Complete Match" =>
           /\ result.reviewed_dataframe[i] = original_df[i]
           /\ \A j \in 1..Len(result.changes_made) :
                result.changes_made[j].patient_id # original_df[i].patient_id

\* C3: for a dataset of at least one patient, calculate_original_accuracy
\* returns code_level_accuracy = (total_ai_codes - total_missed_codes) /
\* total_ai_codes when total_ai_codes > 0 and returns 0, without raising, when
\* total_ai_codes = 0, whatever the number of baseline codes.
C3_CodeLevelAccuracy ==
  (last_call = "calculate_original_accuracy" /\ Len(original_df) > 0) =>
    LET ai == SeqSum([i \in 1..Len(original_df) |->
                        Cardinality(parse_codes(original_df[i].rc))])
        missed == SeqSum([i \in 1..Len(original_df) |->
                            Cardinality(parse_codes(original_df[i].smc)
                                          \ parse_codes(original_df[i].rc))])
    IN  /\ Returned(result)
        /\ RateEq(result.code_level_accuracy,
                  IF ai > 0 THEN Div(ai - missed, ai) ELSE Div(0, 1))

\* The counts and rates of a layer computed from the partial-match reviews.
LayerOf(name, df, reviews, nm_reviews) ==
  CASE name = "calculate_post_ai_review_accuracy" ->
         calculate_post_ai_review_accuracy(df, reviews)
    [] name = "calculate_corrected_code_accuracy" ->
         calculate_corrected_code_accuracy(reviews)
    [] name = "calculate_post_review_code_accuracy" ->
         calculate_post_review_code_accuracy(df, reviews)
    [] name = "calculate_unified_post_review_accuracy" ->
         calculate_unified_post_review_accuracy(df, reviews, nm_reviews)

ReviewLayers ==
  {"calculate_post_ai_review_accuracy", "calculate_corrected_code_accuracy",
   "calculate_post_review_code_accuracy", "calculate_unified_post_review_accuracy"}

LayerCounts(name, r) ==
  CASE name = "calculate_post_ai_review_accuracy" ->
         <<r.post_review_metrics.complete_matches, r.post_review_metrics.partial_matches,
           r.post_review_metrics.no_matches,
           r.improvements.partial_to_complete_conversions,
           r.manual_coding_analysis.total_reviewed_codes,
           r.manual_coding_analysis.sutherland_errors,
           r.manual_coding_analysis.ai_corrections,
           r.manual_coding_analysis.extra_codes_by_ai>>
    [] name = "calculate_corrected_code_accuracy" ->
         <<r.total_codes_reviewed, r.ai_correct_codes, r.sutherland_correct_codes>>
    [] name = "calculate_post_review_code_accuracy" ->
         <<r.codes_reviewed_by_ai, r.ai_correct_decisions, r.sutherland_errors_found,
           r.ai_corrections_accepted>>
    [] name = "calculate_unified_post_review_accuracy" ->
         <<r.codes_corrected, r.codes_reviewed, r.code_level_improvement.num,
           r.code_level_improvement.den>>

SameCounts(name, r1, r2) ==
  /\ r1.raised = r2.raised
  /\ Returned(r1) => LayerCounts(name, r1) = LayerCounts(name, r2)

RemoveAt(s, k) == SubSeq(s, 1, k - 1) \o SubSeq(s, k + 1, Len(s))

\* A usable result with no resolvable patient_id, or one that matches no patient.
Unmatched(k) == UsableAt(k) /\ ~MatchedAt(k)

\* C10: in every layer computed from the partial-match reviews, a result
\* with no resolvable patient_id or with a patient_id of no patient of the
\* dataset changes no count: the layer's counts equal those computed from the
\* list without that result.
C10_UnmatchedResultSkipped ==
  last_call \in ReviewLayers =>
    \A k \in 1..Len(partial_match_reviews) :
      Unmatched(k) =>
        SameCounts(last_call, result,
                   LayerOf(last_call, original_df, RemoveAt(partial_match_reviews, k),
                           no_match_reviews))

(***************************************************************************)
(* The multi-endpoint LLM invocation manager: O3AIIntegration.invoke_llm   *)
(* and invoke_llm_with_json_retry.  Deployments are numbered from 0 as in  *)
(* llm_deployments.  A calling thread is a worker; its record holds its    *)
(* position (pc), the locals of the two methods, and a log of what the     *)
(* current call has done so far.                                           *)
(***************************************************************************)
Deployments == 0..(NumDeployments - 1)

\* What a deployment answers with.  kind says what robust_json_parse and the
\* `"error" not in parsed_response` test make of response.content: a JSON
\* object without an 'error' key, text no strategy parses, a JSON object that
\* has an 'error' key, a JSON array that holds the string "error", or a JSON
\* number (on which the `in` test raises).
Responses ==
  {[kind |-> "object", text |-> "j1"],
   [kind |-> "unparsable", text |-> "u1"],
   [kind |-> "unparsable", text |-> "u2"],
   [kind |-> "error_object", text |-> "e1"],
   [kind |-> "error_array", text |-> "a1"],
   [kind |-> "scalar", text |-> "5"]}

NoResponse == [kind |-> "none", text |-> ""]

\* robust_json_parse(response.content) as invoke_llm_with_json_retry sees it.
ParsedResponse(response) ==
  CASE response.kind = "object" ->
         [has_error |-> FALSE, kind |-> "parsed", content |-> response.text,
          raw_response |-> ""]
    [] response.kind = "unparsable" ->
         [has_error |-> TRUE, kind |-> "parse_failure", content |-> "",
          raw_response |-> response.text]
    [] response.kind = "error_object" ->
         [has_error |-> TRUE, kind |-> "error_object", content |-> response.text,
          raw_response |-> ""]
    [] response.kind = "error_array" ->
         [has_error |-> TRUE, kind |-> "error_array", content |-> response.text,
          raw_response |-> ""]
    [] response.kind = "scalar" ->
         [has_error |-> FALSE, kind |-> "scalar", content |-> response.text,
          raw_response |-> ""]

\* The record returned when the last attempt ends in the except branch.
ApiErrorResult ==
  [has_error |-> TRUE, kind |-> "api_error", content |-> "", raw_response |-> ""]

NoReturn == [has_error |-> FALSE, kind |-> "none", content |-> "", raw_response |-> ""]

IdleWorker ==
  [pc |-> "idle", caller |-> "none",
   attempt |-> 0, response |-> NoResponse, ret |-> NoReturn,
   cycle_count |-> 0, sweep_pos |-> 0, index_read |-> 0, tried |-> 0,
   \* the log of the current invoke_llm call
   sweep_log |-> <<>>, attempts |-> 0, rotations |-> 0, sleeps |-> 0,
   started_at |-> 0,
   \* the log of the current invoke_llm_with_json_retry call
   attempt_log |-> <<>>, reminders |-> 0, invoke_calls |-> 0,
   endpoint_attempts |-> 0]

\* The rotation with the advance forgotten.
NextDeploymentStuck(i) == i % NumDeployments
NextDeployment(i) == (i + 1) % NumDeployments
\* The sweep loop with an inclusive bound.
CycleRemainsInclusive(cycle_count) == cycle_count <= max_cycles
CycleRemains(cycle_count) == cycle_count < max_cycles
\* The retry test with an inclusive bound.
RetryRemainsInclusive(attempt) == attempt <= max_json_retries
RetryRemains(attempt) == attempt < max_json_retries

Set(w, r) == worker' = [worker EXCEPT ![w] = r]

\* invoke_llm is entered: max_cycles = 3, cycle_count = 0, the for loop starts.
EnterInvoke(r, caller) ==
  [r EXCEPT !.pc = "try", !.caller = caller, !.cycle_count = 0, !.sweep_pos = 0,
            !.sweep_log = <<>>, !.attempts = 0, !.rotations = 0, !.sleeps = 0,
            !.started_at = current_llm_index]

\* A thread calls invoke_llm itself.
CallInvokeLLM(w) ==
  /\ worker[w].pc = "idle"
  /\ Set(w, EnterInvoke(worker[w], "direct"))
  /\ UNCHANGED <<calcVars, batchVars, current_llm_index, llm, total_sleep_time,
                 api_calls_made,
                 successful_calls, failed_calls, behaviour, max_json_retries>>

\* A thread calls invoke_llm_with_json_retry: attempt = 0.
CallInvokeWithJsonRetry(w) ==
  /\ worker[w].pc = "idle"
  /\ Set(w, [worker[w] EXCEPT !.pc = "attempt", !.attempt = 0,
                              !.attempt_log = <<>>, !.reminders = 0,
                              !.invoke_calls = 0, !.endpoint_attempts = 0])
  /\ UNCHANGED <<calcVars, batchVars, current_llm_index, llm, total_sleep_time,
                 api_calls_made,
                 successful_calls, failed_calls, behaviour, max_json_retries>>

\* The top of the `for attempt` body: the JSON reminder is appended to the
\* messages on every attempt but the first, then invoke_llm is called.
BeginAttempt(w) ==
  /\ worker[w].pc = "attempt"
  /\ Set(w, EnterInvoke([worker[w] EXCEPT
                           !.reminders = IF worker[w].attempt > 0 THEN @ + 1 ELSE @,
                           !.invoke_calls = @ + 1],
                        "json"))
  /\ UNCHANGED <<calcVars, batchVars, current_llm_index, llm, total_sleep_time,
                 api_calls_made,
                 successful_calls, failed_calls, behaviour, max_json_retries>>

\* self.llm.invoke(messages): the active client answers or raises.
TryEndpoint(w) ==
  /\ worker[w].pc = "try"
  /\ LET r == [worker[w] EXCEPT !.attempts = @ + 1, !.sweep_log = Append(@, llm),
                                !.endpoint_attempts = @ + 1]
     IN  \/ /\ behaviour[llm] \in {"ok", "flaky"}
            /\ \E response \in Responses :
                 Set(w, [r EXCEPT !.response = response,
                                  !.pc = IF r.caller = "json" THEN "got_response"
                                         ELSE "returned"])
      \/ /\ behaviour[llm] \in {"fail", "flaky"}
            /\ Set(w, [r EXCEPT !.tried = llm, !.pc = "rotate_read"])
  /\ UNCHANGED <<calcVars, batchVars, current_llm_index, llm, total_sleep_time,
                 api_calls_made,
                 successful_calls, failed_calls, behaviour, max_json_retries>>

\* self.current_llm_index = (self.current_llm_index + 1) % len(...): the read,
\* then the write.
RotateRead(w) ==
  /\ worker[w].pc = "rotate_read"
  /\ Set(w, [worker[w] EXCEPT !.index_read = current_llm_index, !.pc = "rotate_write"])
  /\ UNCHANGED <<calcVars, batchVars, current_llm_index, llm, total_sleep_time,
                 api_calls_made,
                 successful_calls, failed_calls, behaviour, max_json_retries>>

RotateWrite(w) ==
  /\ worker[w].pc = "rotate_write"
  /\ current_llm_index' = NextDeployment(worker[w].index_read)
  /\ Set(w, [worker[w] EXCEPT !.rotations = @ + 1, !.pc = "create_read"])
  /\ UNCHANGED <<calcVars, batchVars, llm, total_sleep_time, api_calls_made, successful_calls,
                 failed_calls, behaviour, max_json_retries>>

\* self.llm = self.create_llm(self.llm_deployments[self.current_llm_index]):
\* the read of the cursor, then the write of the client; the for loop goes on,
\* or the sweep is over.
CreateLLMRead(w) ==
  /\ worker[w].pc = "create_read"
  /\ Set(w, [worker[w] EXCEPT !.index_read = current_llm_index, !.pc = "create_write"])
  /\ UNCHANGED <<calcVars, batchVars, current_llm_index, llm, total_sleep_time,
                 api_calls_made,
                 successful_calls, failed_calls, behaviour, max_json_retries>>

CreateLLMWrite(w) ==
  /\ worker[w].pc = "create_write"
  /\ llm' = worker[w].index_read
  /\ Set(w, [worker[w] EXCEPT
               !.sweep_pos = @ + 1,
               !.pc = IF worker[w].sweep_pos + 1 < NumDeployments THEN "try" ELSE "sleep"])
  /\ UNCHANGED <<calcVars, batchVars, current_llm_index, total_sleep_time, api_calls_made, successful_calls,
                 failed_calls, behaviour, max_json_retries>>

\* The end of a sweep: time.sleep(10), total_sleep_time += 10, cycle_count += 1;
\* then the next sweep, or the exception once max_cycles sweeps are done.
SweepSleep(w) ==
  /\ worker[w].pc = "sleep"
  /\ total_sleep_time' = total_sleep_time + SweepSleepSeconds
  /\ LET r == [worker[w] EXCEPT !.sleeps = @ + 1, !.cycle_count = @ + 1]
     IN  IF CycleRemains(r.cycle_count)
         THEN Set(w, [r EXCEPT !.pc = "try", !.sweep_pos = 0, !.sweep_log = <<>>])
         ELSE Set(w, [r EXCEPT !.pc = IF r.caller = "json" THEN "api_error"
                                      ELSE "raised"])
  /\ UNCHANGED <<calcVars, batchVars, current_llm_index, llm, api_calls_made, successful_calls,
                 failed_calls, behaviour, max_json_retries>>

\* The except branch of invoke_llm_with_json_retry: failed_calls += 1, then
\* sleep 2 and the next attempt, or the API-error record.
ExceptBranch(w, r) ==
  /\ failed_calls' = failed_calls + 1
  /\ IF RetryRemains(r.attempt)
     THEN Set(w, [r EXCEPT !.pc = "attempt", !.attempt = @ + 1])
     ELSE Set(w, [r EXCEPT !.pc = "done", !.ret = ApiErrorResult])

\* invoke_llm returned a response: api_calls_made += 1, the response is
\* parsed, and the parsed structure is returned, or the attempt is repeated,
\* or the parse failure is returned.
HandleResponse(w) ==
  /\ worker[w].pc = "got_response"
  /\ api_calls_made' = api_calls_made + 1
  /\ LET r == [worker[w] EXCEPT
                 !.attempt_log = Append(@, [event |-> "response",
                                            response |-> worker[w].response])]
     IN  IF ParsedResponse(r.response).kind = "scalar"
         THEN /\ ExceptBranch(w, r)
              /\ UNCHANGED successful_calls
         ELSE LET parsed_response == ParsedResponse(r.response)
              IN  IF ~parsed_response.has_error
                  THEN /\ successful_calls' = successful_calls + 1
                       /\ Set(w, [r EXCEPT !.pc = "done", !.ret = parsed_response])
                       /\ UNCHANGED failed_calls
                  ELSE IF RetryRemains(r.attempt)
                  THEN /\ Set(w, [r EXCEPT !.pc = "attempt", !.attempt = @ + 1])
                       /\ UNCHANGED <<successful_calls, failed_calls>>
                  ELSE /\ failed_calls' = failed_calls + 1
                       /\ Set(w, [r EXCEPT !.pc = "done", !.ret = parsed_response])
                       /\ UNCHANGED successful_calls
  /\ UNCHANGED <<calcVars, batchVars, current_llm_index, llm, total_sleep_time, behaviour, max_json_retries>>

\* invoke_llm raised: the except branch.
HandleApiError(w) ==
  /\ worker[w].pc = "api_error"
  /\ ExceptBranch(w, [worker[w] EXCEPT
                        !.attempt_log = Append(@, [event |-> "api_error",
                                                   response |-> NoResponse])])
  /\ UNCHANGED <<calcVars, batchVars, current_llm_index, llm, total_sleep_time,
                 api_calls_made,
                 successful_calls, behaviour, max_json_retries>>

SingleCaller == {"w1"}
Workers == {"w1", "w2"}

\* __init__: the cursor at 0 and the client built for it; by the time of a
\* call the cursor may stand on any deployment.
InitLLM(threads, behaviours) ==
  /\ current_llm_index \in Deployments
  /\ llm = current_llm_index
  /\ total_sleep_time = 0
  /\ api_calls_made = 0
  /\ successful_calls = 0
  /\ failed_calls = 0
  /\ behaviour \in [Deployments -> behaviours]
  /\ max_json_retries \in 0..DefaultMaxJsonRetries
  /\ worker = [w \in threads |-> IdleWorker]

CalculatorUnused ==
  /\ original_df = <<>>
  /\ partial_match_reviews = <<>>
  /\ no_match_reviews = <<>>
  /\ last_call = "none"
  /\ result = NoResult
  /\ previous_result = NoResult

\* A single caller.
InitInvoke ==
  /\ InitLLM(SingleCaller, {"ok", "fail", "flaky"})
  /\ CalculatorUnused
  /\ BatchUnused

NextInvoke ==
  \E w \in SingleCaller :
    \/ CallInvokeLLM(w)
    \/ CallInvokeWithJsonRetry(w)
    \/ BeginAttempt(w)
    \/ TryEndpoint(w)
    \/ RotateRead(w)
    \/ RotateWrite(w)
    \/ CreateLLMRead(w)
    \/ CreateLLMWrite(w)
    \/ SweepSleep(w)
    \/ HandleResponse(w)
    \/ HandleApiError(w)

SpecInvoke == InitInvoke /\ [][NextInvoke]_vars

\* Several worker threads share the manager, each calling invoke_llm.
InitThreads ==
  /\ InitLLM(Workers, {"ok", "fail"})
  /\ max_json_retries = DefaultMaxJsonRetries
  /\ CalculatorUnused
  /\ BatchUnused

NextThreads ==
  \E w \in Workers :
    \/ CallInvokeLLM(w)
    \/ TryEndpoint(w)
    \/ RotateRead(w)
    \/ RotateWrite(w)
    \/ CreateLLMRead(w)
    \/ CreateLLMWrite(w)
    \/ SweepSleep(w)

SpecThreads == InitThreads /\ [][NextThreads]_vars

(***************************************************************************)
(* Claims about the invocation manager.                                    *)
(***************************************************************************)
NoDuplicates(seq) == \A i, j \in 1..Len(seq) : seq[i] = seq[j] => i = j
InInvoke(r) == r.caller \in {"direct", "json"}
InvokeReturned(r) == r.pc \in {"returned", "got_response"}
InvokeRaised(r) == r.pc \in {"raised", "api_error"}
SomeEndpointAlwaysSucceeds == \E e \in Deployments : behaviour[e] = "ok"
EveryEndpointAlwaysFails == \A e \in Deployments : behaviour[e] = "fail"

\* C4: for a single caller, when some endpoint succeeds whenever it is tried,
\* invoke_llm never sleeps and never raises, tries no endpoint twice, and
\* returns in the first sweep having rotated the cursor once for each endpoint
\* that failed (once when the first endpoint tried fails and the next one
\* always succeeds).
C4_FirstSweepSuccess ==
  \A w \in DOMAIN worker :
    LET r == worker[w]
    IN  (InInvoke(r) /\ r.pc \notin {"attempt", "done"} /\ SomeEndpointAlwaysSucceeds) =>
          /\ r.sleeps = 0
          /\ r.cycle_count = 0
          /\ r.pc # "sleep"
          /\ ~InvokeRaised(r)
          /\ NoDuplicates(r.sweep_log)
          /\ r.attempts = Len(r.sweep_log)
          /\ total_sleep_time = 0
          /\ InvokeReturned(r) =>
               /\ r.rotations = r.attempts - 1
               /\ r.response \in Responses
               /\ (/\ behaviour[r.started_at] = "fail"
                   /\ behaviour[NextDeployment(r.started_at)] = "ok")
                  => r.rotations = 1

C4_Witness ==
  \E w \in DOMAIN worker :
    /\ worker[w].pc = "returned"
    /\ SomeEndpointAlwaysSucceeds
    /\ behaviour[worker[w].started_at] = "fail"
    /\ worker[w].rotations = 1
    /\ worker[w].sleeps = 0

\* C5: when every endpoint fails on every attempt, one invoke_llm call makes
\* at most three sweeps, each over every endpoint once; it never returns a
\* response, and it raises after exactly 3 * N attempts and exactly 3 sleeps.
C5_ExhaustedAfterThreeSweeps ==
  \A w \in DOMAIN worker :
    LET r == worker[w]
    IN  (InInvoke(r) /\ r.pc \notin {"attempt", "done"} /\ EveryEndpointAlwaysFails) =>
          /\ ~InvokeReturned(r)
          /\ r.cycle_count <= 3
          /\ r.cycle_count = r.sleeps
          /\ r.attempts <= 3 * NumDeployments
          /\ NoDuplicates(r.sweep_log)
          /\ r.pc = "sleep" => {r.sweep_log[i] : i \in 1..Len(r.sweep_log)} = Deployments
          /\ r.pc \in {"try", "rotate_read"} => r.cycle_count < 3
          /\ InvokeRaised(r) =>
               /\ r.attempts = 3 * NumDeployments
               /\ r.sleeps = 3
               /\ r.rotations = 3 * NumDeployments

C5_Witness ==
  \E w \in DOMAIN worker :
    /\ worker[w].pc = "raised"
    /\ EveryEndpointAlwaysFails
    /\ worker[w].sleeps = 3
    /\ worker[w].attempts = 3 * NumDeployments

(***************************************************************************)
(* Claims about invoke_llm_with_json_retry.                                *)
(***************************************************************************)
RetryReturned(r) == r.caller = "json" /\ r.pc = "done"
Unparsable(entry) ==
  entry.event = "response" /\ ParsedResponse(entry.response).kind = "parse_failure"
ParseSucceeded(entry) ==
  entry.event = "response" /\ ParsedResponse(entry.response).kind # "parse_failure"

\* C8: when invoke_llm_with_json_retry returns something other than a parsed
\* structure after some response failed to parse, the value returned is the
\* parse failure of the most recent such response, with that response's raw
\* text, whatever the later attempts did.
C8_ReturnsLastParseFailure ==
  \A w \in DOMAIN worker :
    LET r == worker[w]
        log == r.attempt_log
    IN  (/\ RetryReturned(r)
         /\ r.ret.kind # "parsed"
         /\ \E i \in 1..Len(log) : Unparsable(log[i])) =>
          \E i \in 1..Len(log) :
            /\ Unparsable(log[i])
            /\ \A j \in (i + 1)..Len(log) : ~Unparsable(log[j])
            /\ r.ret.kind = "parse_failure"
            /\ r.ret = ParsedResponse(log[i].response)
            /\ r.ret.raw_response = log[i].response.text

\* C9: one call of invoke_llm_with_json_retry calls invoke_llm at most
\* max_json_retries + 1 times, and the first response that parses ends the
\* call: it is the last one requested and its parsed structure is returned.
C9_BoundedInvokeCalls ==
  \A w \in DOMAIN worker :
    LET r == worker[w]
        log == r.attempt_log
    IN  /\ r.invoke_calls <= max_json_retries + 1
        /\ \A i \in 1..Len(log) :
             ParseSucceeded(log[i]) =>
               /\ i = Len(log)
               /\ r.invoke_calls = i
               /\ RetryReturned(r)
               /\ r.ret.content = log[i].response.text

(***************************************************************************)
(* Claims about threads sharing the manager.                               *)
(***************************************************************************)
\* From the read of the cursor at line 250 to the store of the client at
\* line 251.
InRotation(r) == r.pc \in {"rotate_write", "create_read", "create_write"}

\* C6: when no thread is inside a rotation, the active client is the one
\* built for the deployment at the cursor; and a thread's rotation leaves the
\* cursor one position after the deployment the thread saw fail.
C6_CursorSerialized ==
  /\ (\A w \in DOMAIN worker : ~InRotation(worker[w])) => llm = current_llm_index
  /\ \A w \in DOMAIN worker :
       (worker[w].pc = "create_read" /\ \A v \in DOMAIN worker \ {w} : ~InRotation(worker[v]))
         => current_llm_index = NextDeployment(worker[w].tried)

(***************************************************************************)
(* The parallel reviews: review_partial_matches_parallel and               *)
(* review_no_matches_parallel run review_partial_match_case and            *)
(* review_no_match_case on a thread pool and collect one result per        *)
(* future.                                                                 *)
(***************************************************************************)
\* A case dict.  formats says whether the case_info f-string, which is built
\* before the try block, can be formatted from the case's fields.
Case(patient_id, formats) == [patient_id |-> patient_id, formats |-> formats]
CaseUniverse == {Case(p, f) : p \in {"1", "2"}, f \in BOOLEAN}

\* What invoke_llm_with_json_retry can hand back to a review.
RetryOutcomes ==
  {ParsedResponse(r) : r \in {x \in Responses : x.kind # "scalar"}} \cup {ApiErrorResult}

\* The error dicts the reviews build.  raw_response is NoneVal where the dict
\* has no such key.
CaseError(case, error, raw_response) ==
  [has_error |-> TRUE, patient_id |-> case.patient_id, error |-> error,
   raw_response |-> raw_response]

\* review_partial_match_case: the response as it is when it has no 'error',
\* the parse-failure dict when it has, and the API-error dict when examining
\* the response raises (response.get on a list).
review_partial_match_case(case, response) ==
  IF ~case.formats THEN Raise("TypeError")
  ELSE IF ~response.has_error
  THEN [raised |-> "none", value |-> [has_error |-> FALSE, response |-> response]]
  ELSE IF response.kind = "error_array"
  THEN [raised |-> "none", value |-> CaseError(case, "API error", NoneVal)]
  ELSE [raised |-> "none",
        value |-> CaseError(case, "Failed to parse AI response", response.raw_response)]

\* review_no_match_case: the same handling, with the no-match prompt.
review_no_match_case(case, response) ==
  IF ~case.formats THEN Raise("TypeError")
  ELSE IF ~response.has_error
  THEN [raised |-> "none", value |-> [has_error |-> FALSE, response |-> response]]
  ELSE IF response.kind = "error_array"
  THEN [raised |-> "none", value |-> CaseError(case, "API error", NoneVal)]
  ELSE [raised |-> "none",
        value |-> CaseError(case, "Failed to parse AI response", response.raw_response)]

ReviewCase(method, case, response) ==
  IF method = "review_partial_matches_parallel"
  THEN review_partial_match_case(case, response)
  ELSE review_no_match_case(case, response)

\* The collection loop with the failed future's case forgotten.
CollectedResultAnonymous(case, outcome) ==
  IF outcome.raised = "none"
  THEN outcome.value
  ELSE [has_error |-> TRUE, patient_id |-> NoneVal, error |-> "Execution error",
        raw_response |-> NoneVal]

\* The body of the `for future in as_completed(...)` loop: what is appended
\* to results for a finished future.
CollectedResult(case, outcome) ==
  IF outcome.raised = "none"
  THEN outcome.value
  ELSE CaseError(case, "Execution error", NoneVal)

PendingFuture == [state |-> "pending", outcome |-> NoResult, response |-> NoReturn,
                  collected_at |-> 0]

Running == {i \in DOMAIN futures : futures[i].state = "running"}

\* results = [] and the dict comprehension: every case is submitted.
SubmitAll ==
  /\ batch.pc = "called"
  /\ results' = <<>>
  /\ futures' = [i \in DOMAIN cases |-> PendingFuture]
  /\ batch' = [batch EXCEPT !.pc = "collecting"]
  /\ UNCHANGED <<calcVars, llmVars, cases, pipeline, parser>>

\* A pool thread takes a submitted task.
StartTask(i) ==
  /\ batch.pc = "collecting"
  /\ i \in DOMAIN futures
  /\ futures[i].state = "pending"
  /\ Cardinality(Running) < batch.max_workers
  /\ futures' = [futures EXCEPT ![i].state = "running"]
  /\ UNCHANGED <<calcVars, llmVars, cases, results, batch, pipeline, parser>>

\* The task ends: the review returned a dict, or raised.
FinishTask(i) ==
  /\ batch.pc = "collecting"
  /\ i \in DOMAIN futures
  /\ futures[i].state = "running"
  /\ \E response \in RetryOutcomes :
       futures' = [futures EXCEPT
                     ![i].state = "finished",
                     ![i].response = IF cases[i].formats THEN response ELSE NoReturn,
                     ![i].outcome = ReviewCase(batch.method, cases[i], response)]
  /\ UNCHANGED <<calcVars, llmVars, cases, results, batch, pipeline, parser>>

\* as_completed yields a finished future; its result, or the execution-error
\* dict, is appended.
Collect(i) ==
  /\ batch.pc = "collecting"
  /\ i \in DOMAIN futures
  /\ futures[i].state = "finished"
  /\ futures[i].collected_at = 0
  /\ results' = Append(results, CollectedResult(cases[i], futures[i].outcome))
  /\ futures' = [futures EXCEPT ![i].collected_at = Len(results) + 1]
  /\ UNCHANGED <<calcVars, llmVars, cases, batch, pipeline, parser>>

\* The loop left after the first future it yielded.
AsCompletedFirstOnly ==
  futures = <<>> \/ \E i \in DOMAIN futures : futures[i].collected_at # 0
\* `for future in as_completed(future_to_case)` is exhausted: every future
\* has been yielded and its result appended.
AsCompletedExhausted == \A i \in DOMAIN futures : futures[i].collected_at # 0

\* Every future has been yielded: the with block ends and results is returned.
ReturnResults ==
  /\ batch.pc = "collecting"
  /\ AsCompletedExhausted
  /\ batch' = [batch EXCEPT !.pc = "returned"]
  /\ UNCHANGED <<calcVars, llmVars, cases, futures, results, pipeline, parser>>

RECURSIVE SeqsUpTo(_, _)
SeqsUpTo(S, n) ==
  IF n = 0 THEN {<<>>}
  ELSE LET shorter == SeqsUpTo(S, n - 1)
       IN  shorter \cup {Append(q, x) : q \in {t \in shorter : Len(t) = n - 1}, x \in S}

InitBatch ==
  /\ cases \in SeqsUpTo(CaseUniverse, MaxCases)
  /\ futures = <<>>
  /\ results = <<>>
  /\ batch \in {[pc |-> "called", method |-> m, max_workers |-> n] :
                  m \in {"review_partial_matches_parallel", "review_no_matches_parallel"},
                  n \in 1..MaxPoolWorkers}
  /\ pipeline = PipelineUnused
  /\ parser = ParserUnused
  /\ CalculatorUnused
  /\ LLMUnused

NextBatch ==
  \/ SubmitAll
  \/ \E i \in 1..MaxCases : StartTask(i)
  \/ \E i \in 1..MaxCases : FinishTask(i)
  \/ \E i \in 1..MaxCases : Collect(i)
  \/ ReturnResults

SpecBatch == InitBatch /\ [][NextBatch]_vars

\* The case of a future failed: the review raised, or got no usable response.
CaseFailed(i) ==
  futures[i].outcome.raised # "none" \/ futures[i].response.has_error

\* C7: when review_partial_matches_parallel or review_no_matches_parallel
\* returns, results holds exactly one entry per submitted case, and the entry
\* of every failed case has the error marker and that case's patient_id.
C7_OneResultPerCase ==
  batch.pc = "returned" =>
    /\ Len(results) = Len(cases)
    /\ \A i \in DOMAIN cases : futures[i].collected_at \in 1..Len(results)
    /\ \A i, j \in DOMAIN cases :
         futures[i].collected_at = futures[j].collected_at => i = j
    /\ \A i \in DOMAIN cases :
         CaseFailed(i) =>
           /\ results[futures[i].collected_at].has_error
           /\ results[futures[i].collected_at].patient_id = cases[i].patient_id

C7_Witness ==
  /\ batch.pc = "returned"
  /\ Len(cases) = 2
  /\ \E i, j \in DOMAIN cases :
       /\ futures[i].outcome.raised # "none"
       /\ futures[j].response.kind = "parse_failure"
       /\ futures[j].outcome.raised = "none"
       /\ cases[i].patient_id # cases[j].patient_id
       /\ futures[j].collected_at < futures[i].collected_at

(***************************************************************************)
(* Reconciliation of review lists that hold a malformed result.            *)
(***************************************************************************)
SampleRow(i, m) == Row(i, m, << <<"A", "B">>, <<"A">> >>)

MalformedReviews ==
  {WithDefect(Review(pid, <<AICorrection>>, Scores(90, 95)), d) :
     pid \in {"1", UnknownPatientId},
     d \in {"not_a_dict", "analysis_null", "entry_not_dict", "score_not_dict"}}

NoMatchReviews ==
  {NoMatchReview(e, p, c, sc) :
     e \in BOOLEAN, p \in BOOLEAN, c \in BOOLEAN, sc \in {NoScores, Scores(30, 80)}}

MalformedNoMatchReviews ==
  {WithDefect(NoMatchReview(FALSE, TRUE, FALSE, NoScores), d) :
     d \in {"not_a_dict", "match_potential_not_dict", "score_not_dict"}}

InitMalformed ==
  /\ original_df \in {<<SampleRow(1, m)>> : m \in MatchResults}
                     \cup {<<SampleRow(1, "Partial Match"), SampleRow(2, m)>> :
                             m \in MatchResults}
  /\ \/ /\ partial_match_reviews \in
             UNION {[1..n -> MalformedReviews \cup CoreReviews] : n \in 1..MaxReviews}
        /\ no_match_reviews = <<>>
     \/ /\ partial_match_reviews = <<>>
        /\ no_match_reviews \in
             UNION {[1..n -> MalformedNoMatchReviews \cup NoMatchReviews] :
                      n \in 1..MaxReviews}
  /\ last_call = "none"
  /\ result = NoResult
  /\ previous_result = NoResult
  /\ LLMUnused
  /\ BatchUnused

NextMalformed == CalculatePostAIReviewAccuracy \/ AnalyzeNoMatchReviews

SpecMalformed == InitMalformed /\ [][NextMalformed]_vars

NoMatchCounts(r) ==
  <<r.potential_upgrades, r.upgrade_potential.to_partial_match,
    r.upgrade_potential.to_complete_match, r.ai_better_cases, r.sutherland_better_cases>>

\* C11: a malformed result in a review list does not abort the computation:
\* calculate_post_ai_review_accuracy and analyze_no_match_reviews return, and
\* their counts are those computed from the list without that result.
C11_MalformedResultSkipped ==
  /\ last_call = "calculate_post_ai_review_accuracy" =>
       \A k \in 1..Len(partial_match_reviews) :
         Defect(partial_match_reviews[k]) # "none" =>
           /\ Returned(result)
           /\ SameCounts(last_call, result,
                         calculate_post_ai_review_accuracy(
                           original_df, RemoveAt(partial_match_reviews, k)))
  /\ last_call = "analyze_no_match_reviews" =>
       \A k \in 1..Len(no_match_reviews) :
         Defect(no_match_reviews[k]) # "none" =>
           /\ Returned(result)
           /\ NoMatchCounts(result) =
                NoMatchCounts(analyze_no_match_reviews(RemoveAt(no_match_reviews, k)))

(***************************************************************************)
(* Claims about rates, promotion and repeated calls.                       *)
(***************************************************************************)
\* C12: on a dataset with zero patients, calculate_original_accuracy,
\* calculate_post_ai_review_accuracy and calculate_unified_post_review_accuracy
\* return; none raises a division error.
C12_ZeroPatientsFallback ==
  (/\ Len(original_df) = 0
   /\ last_call \in {"calculate_original_accuracy", "calculate_post_ai_review_accuracy",
                     "calculate_unified_post_review_accuracy"})
    => Returned(result)

ChartCounts(r) ==
  <<r.post_review_metrics.complete_matches, r.post_review_metrics.partial_matches,
    r.post_review_metrics.no_matches>>

\* Entry k of the review list repeats an earlier entry.
RepeatsEarlier(k) ==
  \E j \in 1..(k - 1) : partial_match_reviews[j] = partial_match_reviews[k]

\* C13: when a patient's adjudication appears twice in the review list,
\* calculate_post_ai_review_accuracy gives every patient the category, and the
\* chart counts, it gives for the list with the adjudication once; and no
\* patient that was Complete Match ends as anything else.
C13_PromotionIdempotent ==
  PostReviewReturned =>
    /\ \A k \in 1..Len(partial_match_reviews) :
         RepeatsEarlier(k) =>
           LET once == calculate_post_ai_review_accuracy(
                         original_df, RemoveAt(partial_match_reviews, k))
           IN  /\ Returned(once)
               /\ result.reviewed_dataframe = once.reviewed_dataframe
               /\ ChartCounts(result) = ChartCounts(once)
               /\ RateEq(result.post_review_metrics.complete_match_rate,
                         once.post_review_metrics.complete_match_rate)
    /\ \A i \in 1..Len(original_df) :
         original_df[i].match = "Complete Match" =>
           result.reviewed_dataframe[i].match = "Complete Match"

\* The same promoting adjudication twice, for a patient that was Partial Match.
C13_Witness ==
  /\ PostReviewReturned
  /\ Len(partial_match_reviews) = 2
  /\ partial_match_reviews[1] = partial_match_reviews[2]
  /\ MatchedAt(1)
  /\ Len(result.changes_made) = 2
  /\ \E i \in 1..Len(original_df) :
       /\ original_df[i].patient_id = ResolvedReview(1).patient_id
       /\ original_df[i].match = "Partial Match"
       /\ result.reviewed_dataframe[i].match = "Complete Match"

(***************************************************************************)
(* A method called twice on the same calculator with the same arguments.   *)
(***************************************************************************)
\* The classification results handed to calculate_comprehensive_metrics.
SampleClassificationResults ==
  <<[classification |-> "important"], [classification |-> "unimportant"],
    [classification |-> "error"]>>

\* reviewed_df = self.original_df.copy() written to without the copy: the
\* stored dataset is the frame the promotions were written to.
DataFrameAlias(df, reviewed_df) == reviewed_df
\* reviewed_df = self.original_df.copy(): what self.original_df holds once
\* the promotions have been written to reviewed_df.
DataFrameCopy(df, reviewed_df) == df

\* self.original_df after a method has run: only
\* calculate_post_ai_review_accuracy writes to a frame, directly or when
\* calculate_comprehensive_metrics calls it.
StoredDataset(name, df, post_review) ==
  IF name \in {"calculate_post_ai_review_accuracy", "calculate_comprehensive_metrics"}
     /\ Returned(post_review)
  THEN DataFrameCopy(df, post_review.reviewed_dataframe)
  ELSE df

MethodResult(name) ==
  CASE name = "calculate_original_accuracy" -> calculate_original_accuracy(original_df)
    [] name = "calculate_comprehensive_metrics" ->
         calculate_comprehensive_metrics(original_df, SampleClassificationResults,
                                         partial_match_reviews, no_match_reviews)
    [] OTHER -> LayerOf(name, original_df, partial_match_reviews, no_match_reviews)

\* The method is called, for the first time or once more.
CallMethod(name) ==
  /\ last_call \in {"none", name}
  /\ previous_result = NoResult
  /\ last_call' = name
  /\ previous_result' = result
  /\ result' = MethodResult(name)
  /\ original_df' =
       StoredDataset(name, original_df,
                     calculate_post_ai_review_accuracy(original_df,
                                                       partial_match_reviews))
  /\ UNCHANGED <<partial_match_reviews, no_match_reviews, llmVars, batchVars>>

RepeatedMethods ==
  {"calculate_original_accuracy", "calculate_post_ai_review_accuracy",
   "calculate_corrected_code_accuracy", "calculate_unified_post_review_accuracy",
   "calculate_comprehensive_metrics"}

RepeatReviews ==
  {Review("1", <<AICorrection>>, Scores(90, 95)),
   Review("2", <<BaselineError>>, NoScores),
   ErrorResult("1", JsonRaw(TRUE, Review("1", <<Substitution>>, NoScores)))}

InitRepeat ==
  /\ original_df \in Datasets({<< <<"A", "B">>, <<"A">> >>})
  /\ partial_match_reviews \in UNION {[1..n -> RepeatReviews] : n \in 0..MaxReviews}
  /\ no_match_reviews \in
       {<<>>, <<NoMatchReview(FALSE, TRUE, TRUE, NoScores)>>,
        <<NoMatchReview(TRUE, FALSE, FALSE, NoScores),
          NoMatchReview(FALSE, TRUE, FALSE, Scores(30, 80))>>}
  /\ last_call = "none"
  /\ result = NoResult
  /\ previous_result = NoResult
  /\ LLMUnused
  /\ BatchUnused

NextRepeat == \E name \in RepeatedMethods : CallMethod(name)

SpecRepeat == InitRepeat /\ [][NextRepeat]_vars

CalledTwice == last_call # "none" /\ previous_result # NoResult

\* C14: a metric computation leaves the stored dataset and the review lists
\* as they were, and the second of two consecutive calls of a method returns
\* what the first returned, promotion decisions included.
C14_CallsLeaveInputsUnchanged ==
  [][/\ original_df' = original_df
     /\ partial_match_reviews' = partial_match_reviews
     /\ no_match_reviews' = no_match_reviews
     /\ CalledTwice' => result' = previous_result']_vars

\* calculate_post_ai_review_accuracy called twice on a list that promotes.
C14_Witness ==
  /\ CalledTwice
  /\ last_call = "calculate_post_ai_review_accuracy"
  /\ Returned(result)
  /\ Len(result.changes_made) > 0
  /\ result.reviewed_dataframe # original_df
  /\ result.changes_made = previous_result.changes_made

(***************************************************************************)
(* The review list in another order.                                       *)
(***************************************************************************)
Reorderings(s) ==
  {[k \in 1..Len(s) |-> s[f[k]]] :
     f \in {g \in [1..Len(s) -> 1..Len(s)] :
              \A i, j \in 1..Len(s) : g[i] = g[j] => i = j}}

\* The promoted patients with the reason of each promotion.
PromotedWithReasons(r) ==
  {<<r.changes_made[k].patient_id, r.changes_made[k].reason>> :
     k \in 1..Len(r.changes_made)}

PostReviewRates(r) ==
  <<r.post_review_metrics.complete_match_rate, r.post_review_metrics.partial_match_rate,
    r.post_review_metrics.no_match_rate, r.improvements.accuracy_improvement,
    r.manual_coding_analysis.manual_coding_accuracy>>

\* C15: for every permutation of the partial-match review list,
\* calculate_post_ai_review_accuracy returns the same counts and rates, the
\* same set of promoted patients with the same reasons, and the same
\* corrected_codes mapping.
C15_OrderIndependent ==
  PostReviewReturned =>
    \A reordered \in Reorderings(partial_match_reviews) :
      LET other == calculate_post_ai_review_accuracy(original_df, reordered)
      IN  /\ SameCounts("calculate_post_ai_review_accuracy", result, other)
          /\ PostReviewRates(result) = PostReviewRates(other)
          /\ PromotedWithReasons(result) = PromotedWithReasons(other)
          /\ result.manual_coding_analysis.corrected_codes =
               other.manual_coding_analysis.corrected_codes

\* No entry of the review list contributes an adjudicated code: the list is
\* empty, or holds only error results, unmatched results and empty analyses.
NoReviewedCodes ==
  \A k \in 1..Len(partial_match_reviews) :
    ~MatchedAt(k) \/ ResolvedReview(k).analysis = <<>>

\* C17: manual coding accuracy is (total_reviewed_codes - baseline_errors) /
\* total_reviewed_codes when total_reviewed_codes > 0, and 1.0 when it is 0,
\* which is the case for an empty list, for error results only and for empty
\* analyses only.
C17_ManualCodingAccuracy ==
  PostReviewReturned =>
    LET m == result.manual_coding_analysis
    IN  /\ m.total_reviewed_codes > 0 =>
             /\ m.manual_coding_accuracy.den = m.total_reviewed_codes
             /\ m.manual_coding_accuracy.num =
                  m.total_reviewed_codes - m.sutherland_errors
        /\ m.total_reviewed_codes = 0 => RateEq(m.manual_coding_accuracy, Div(1, 1))
        /\ NoReviewedCodes => m.total_reviewed_codes = 0

\* Only error results, none recoverable, and the accuracy is 1.0.
C17_Witness ==
  /\ PostReviewReturned
  /\ Len(partial_match_reviews) > 0
  /\ \A k \in 1..Len(partial_match_reviews) : ~UsableAt(k)
  /\ RateEq(result.manual_coding_analysis.manual_coding_accuracy, Div(1, 1))

(***************************************************************************)
(* The code sets of a patient before review.                               *)
(***************************************************************************)
PreReviewReturned ==
  last_call = "calculate_pre_review_code_accuracy" /\ Returned(result)

\* Baseline {A, B, C} against AI {A, B}.
ScenarioRow(i) ==
  /\ parse_codes(original_df[i].smc) = {"A", "B", "C"}
  /\ parse_codes(original_df[i].rc) = {"A", "B"}

\* C19: for every patient the missed codes (baseline - ai) and the extra
\* codes (ai - baseline) are disjoint from each other and from the
\* intersection, and |baseline| = |missed| + |intersection|; over the dataset
\* correctly_coded_by_ai + missed_by_ai = total_sutherland_codes and
\* correctly_coded_by_ai + extra_by_ai = total_ai_codes; baseline {A, B, C}
\* with AI {A, B} gives 1 missed, 0 extra, 2 correct.
C19_CodeSetIdentities ==
  PreReviewReturned =>
    /\ \A i \in 1..Len(original_df) :
         LET baseline == parse_codes(original_df[i].smc)
             ai == parse_codes(original_df[i].rc)
             missed == MissedCodes(baseline, ai)
             extra == ExtraCodes(baseline, ai)
             both == CorrectCodes(baseline, ai)
             row == result.patient_level_data[i]
         IN  /\ missed \cap extra = {}
             /\ missed \cap both = {}
             /\ extra \cap both = {}
             /\ Cardinality(baseline) = Cardinality(missed) + Cardinality(both)
             /\ row.sutherland_codes = row.missed_codes + row.correct_codes
             /\ row.ai_codes = row.extra_codes + row.correct_codes
             /\ ScenarioRow(i) =>
                  <<row.missed_codes, row.extra_codes, row.correct_codes>> = <<1, 0, 2>>
    /\ result.correctly_coded_by_ai + result.missed_by_ai = result.total_sutherland_codes
    /\ result.correctly_coded_by_ai + result.extra_by_ai = result.total_ai_codes

\* A dataset of two patients, one of them the {A, B, C} against {A, B} row.
C19_Witness ==
  /\ PreReviewReturned
  /\ Len(original_df) = 2
  /\ ScenarioRow(1)
  /\ result.extra_by_ai > 0
  /\ result.missed_by_ai > 1

(***************************************************************************)
(* The unified projection and a no-match review with both upgrade flags.   *)
(***************************************************************************)
UnifiedReturned ==
  last_call = "calculate_unified_post_review_accuracy" /\ Returned(result)

\* The parsed no-match reviews that satisfy flags.
ParsedNoMatch(flags(_)) ==
  Cardinality({k \in 1..Len(no_match_reviews) :
                 ~no_match_reviews[k].has_error /\ flags(no_match_reviews[k])})

CompleteFlag(review) == review.could_be_complete_match
PartialFlag(review) == review.could_be_partial_match
BothFlags(review) == CompleteFlag(review) /\ PartialFlag(review)
PartialFlagOnly(review) == PartialFlag(review) /\ ~CompleteFlag(review)

\* result's three unified rates are the original rates moved by complete,
\* partial and total upgrades out of the number of patients.
UnifiedRatesMovedBy(complete, partial, total) ==
  LET original == calculate_original_accuracy(original_df)
      n == Len(original_df)
  IN  /\ RateEq(result.complete_match_rate,
                RateAdd(original.complete_match_rate, Div(complete, n)))
      /\ RateEq(result.partial_match_rate,
                RateAdd(original.partial_match_rate, Div(partial, n)))
      /\ RateEq(result.no_match_rate,
                RateSub(original.no_match_rate, Div(total, n)))

\* C20 as stated: a parsed no-match review with both upgrade flags is counted
\* in both rate deltas and twice in the total: every parsed review with the
\* complete flag adds 1/total_patients to the unified complete-match rate,
\* every one with the partial flag adds 1/total_patients to the unified
\* partial-match rate, and the unified no-match rate drops by the sum.
C20_BothFlagsCountedTwice ==
  UnifiedReturned =>
    UnifiedRatesMovedBy(ParsedNoMatch(CompleteFlag), ParsedNoMatch(PartialFlag),
                        ParsedNoMatch(CompleteFlag) + ParsedNoMatch(PartialFlag))

\* C20 amended: a parsed no-match review with both upgrade flags is counted
\* once, as a complete-match upgrade: it adds 1/total_patients to the unified
\* complete-match rate, nothing to the unified partial-match rate, and takes
\* 1/total_patients from the unified no-match rate; the three unified rates
\* sum to the sum of the three original rates.
C20_BothFlagsCountedOnce ==
  UnifiedReturned =>
    LET original == calculate_original_accuracy(original_df)
    IN  /\ UnifiedRatesMovedBy(
             ParsedNoMatch(CompleteFlag), ParsedNoMatch(PartialFlagOnly),
             ParsedNoMatch(CompleteFlag) + ParsedNoMatch(PartialFlagOnly))
        /\ RateEq(RateAdd(result.complete_match_rate,
                          RateAdd(result.partial_match_rate, result.no_match_rate)),
                  RateAdd(original.complete_match_rate,
                          RateAdd(original.partial_match_rate, original.no_match_rate)))

\* The unified projection of a list that holds a parsed both-flags review.
C20_Witness ==
  /\ UnifiedReturned
  /\ ParsedNoMatch(BothFlags) > 0
  /\ result.no_match_details.total_potential_upgrades = 1

(***************************************************************************)
(* run_complete_analysis: the two review batches, then the metrics.        *)
(***************************************************************************)
\* get_partial_match_cases and get_no_match_cases: one case per row of the
\* category, in the order of the rows.
RECURSIVE CasesOf(_, _)
CasesOf(df, match) ==
  IF df = <<>> THEN <<>>
  ELSE (IF Head(df).match = match THEN <<Case(Head(df).patient_id, TRUE)>> ELSE <<>>)
       \o CasesOf(Tail(df), match)

get_partial_match_cases(df) == CasesOf(df, "Partial Match")
get_no_match_cases(df) == CasesOf(df, "No Match")

\* A dict of the results list as the calculator reads it.  The JSON object
\* the model wrote is one adjudication of patient "1"; an error dict carries
\* the case's patient_id and, after a parse failure, the text that did not
\* parse.
PartialReviewOf(r) ==
  IF r.has_error
  THEN ErrorResult(r.patient_id,
                   IF r.raw_response = NoneVal THEN NoRaw ELSE UnparsableRaw)
  ELSE Review("1", <<AICorrection>>, Scores(90, 95))

NoMatchReviewOf(r) ==
  IF r.has_error THEN NoMatchReview(TRUE, FALSE, FALSE, NoScores)
  ELSE NoMatchReview(FALSE, TRUE, TRUE, NoScores)

\* partial_match_reviews.json and no_match_reviews.json of an earlier run,
\* or the empty list when the file does not exist.
SavedPartialReviews == {<<>>, <<Review("1", <<AICorrection>>, Scores(90, 95))>>}
SavedNoMatchReviews == {<<>>, <<NoMatchReview(FALSE, TRUE, FALSE, NoScores)>>}

\* self.ai_integration.review_*_parallel(cases, max_workers=self.max_workers)
\* is called.
StartBatch(method, batch_cases, pc) ==
  /\ cases' = batch_cases
  /\ futures' = <<>>
  /\ results' = <<>>
  /\ batch' = [batch EXCEPT !.pc = "called", !.method = method]
  /\ pipeline' = [pipeline EXCEPT !.pc = pc]
  /\ UNCHANGED <<calcVars, llmVars, parser>>

\* Step 3 with skip_review unset.
Step3ReviewPartialMatches ==
  /\ pipeline.pc = "step_3"
  /\ ~pipeline.skip_review
  /\ StartBatch("review_partial_matches_parallel",
                get_partial_match_cases(original_df), "step_3_review")

\* Step 3 with skip_review set: the saved list, or the empty list.
Step3LoadReviews ==
  /\ pipeline.pc = "step_3"
  /\ pipeline.skip_review
  /\ \E saved \in SavedPartialReviews : partial_match_reviews' = saved
  /\ pipeline' = [pipeline EXCEPT !.pc = "step_3_5"]
  /\ UNCHANGED <<original_df, no_match_reviews, last_call, result, previous_result,
                 llmVars, cases, futures, results, batch, parser>>

\* review_results = self.step_3_review_partial_matches(analysis_results)
Step3Returns ==
  /\ pipeline.pc = "step_3_review"
  /\ batch.pc = "returned"
  /\ partial_match_reviews' = [k \in 1..Len(results) |-> PartialReviewOf(results[k])]
  /\ pipeline' = [pipeline EXCEPT !.pc = "step_3_5"]
  /\ UNCHANGED <<original_df, no_match_reviews, last_call, result, previous_result,
                 llmVars, cases, futures, results, batch, parser>>

\* Step 3.5 with skip_no_match_review unset.
Step35ReviewNoMatches ==
  /\ pipeline.pc = "step_3_5"
  /\ ~pipeline.skip_no_match_review
  /\ StartBatch("review_no_matches_parallel",
                get_no_match_cases(original_df), "step_3_5_review")

\* Step 3.5 with skip_no_match_review set.
Step35LoadReviews ==
  /\ pipeline.pc = "step_3_5"
  /\ pipeline.skip_no_match_review
  /\ \E saved \in SavedNoMatchReviews : no_match_reviews' = saved
  /\ pipeline' = [pipeline EXCEPT !.pc = "step_4"]
  /\ UNCHANGED <<original_df, partial_match_reviews, last_call, result, previous_result,
                 llmVars, cases, futures, results, batch, parser>>

\* no_match_reviews = self.step_3_5_review_no_matches(analysis_results)
Step35Returns ==
  /\ pipeline.pc = "step_3_5_review"
  /\ batch.pc = "returned"
  /\ no_match_reviews' = [k \in 1..Len(results) |-> NoMatchReviewOf(results[k])]
  /\ pipeline' = [pipeline EXCEPT !.pc = "step_4"]
  /\ UNCHANGED <<original_df, partial_match_reviews, last_call, result, previous_result,
                 llmVars, cases, futures, results, batch, parser>>

\* step_4_calculate_metrics(classification_results, review_results,
\* no_match_reviews); an exception ends the run in the except clause.
Step4CalculateMetrics ==
  /\ pipeline.pc = "step_4"
  /\ last_call' = "calculate_comprehensive_metrics"
  /\ result' = calculate_comprehensive_metrics(
                  original_df, SampleClassificationResults,
                  partial_match_reviews, no_match_reviews)
  /\ pipeline' = [pipeline EXCEPT !.pc = IF Returned(result') THEN "step_5" ELSE "failed"]
  /\ UNCHANGED <<original_df, partial_match_reviews, no_match_reviews, previous_result,
                 llmVars, cases, futures, results, batch, parser>>

InitPipeline ==
  /\ original_df \in Datasets({<< <<"A", "B">>, <<"A">> >>})
  /\ partial_match_reviews = <<>>
  /\ no_match_reviews = <<>>
  /\ last_call = "none"
  /\ result = NoResult
  /\ previous_result = NoResult
  /\ cases = <<>>
  /\ futures = <<>>
  /\ results = <<>>
  /\ batch \in {[pc |-> "unused", method |-> "none", max_workers |-> n] :
                  n \in 1..MaxPoolWorkers}
  /\ pipeline \in {[pc |-> "step_3", skip_review |-> a, skip_no_match_review |-> b] :
                     a \in BOOLEAN, b \in BOOLEAN}
  /\ parser = ParserUnused
  /\ LLMUnused

NextPipeline ==
  \/ Step3ReviewPartialMatches
  \/ Step3LoadReviews
  \/ Step3Returns
  \/ Step35ReviewNoMatches
  \/ Step35LoadReviews
  \/ Step35Returns
  \/ Step4CalculateMetrics
  \/ SubmitAll
  \/ \E i \in 1..MaxCases : StartTask(i)
  \/ \E i \in 1..MaxCases : FinishTask(i)
  \/ \E i \in 1..MaxCases : Collect(i)
  \/ ReturnResults

SpecPipeline == InitPipeline /\ [][NextPipeline]_vars

\* C16: a review batch returns its result list only after every submitted
\* case has finished and been collected, and the metric computation starts
\* only after both batches have returned: no batch is under way then, and the
\* lists it is handed hold one result per case of the batch that produced them.
C16_NoPartialBatch ==
  /\ batch.pc = "returned" =>
       /\ DOMAIN futures = DOMAIN cases
       /\ \A i \in DOMAIN cases : futures[i].state = "finished"
       /\ Len(results) = Len(cases)
  /\ last_call # "none" =>
       /\ pipeline.pc \in {"step_5", "failed"}
       /\ batch.pc \in {"unused", "returned"}
       /\ ~pipeline.skip_review =>
            Len(partial_match_reviews) = Len(get_partial_match_cases(original_df))
       /\ ~pipeline.skip_no_match_review =>
            Len(no_match_reviews) = Len(get_no_match_cases(original_df))

\* The metrics computed after two batches of one case each.
C16_Witness ==
  /\ last_call = "calculate_comprehensive_metrics"
  /\ ~pipeline.skip_review
  /\ ~pipeline.skip_no_match_review
  /\ Len(partial_match_reviews) = 1
  /\ Len(no_match_reviews) = 1
  /\ Returned(result)

(***************************************************************************)
(* robust_json_parse.  A response text is a sequence of tokens:            *)
(*   "{" "}"  the braces;                                                  *)
(*   "m"      a member "a": 1;                                             *)
(*   "p"      the member "patient_id": "7";                                *)
(*   "k"      a key with its colon, "b": , to be followed by an object;    *)
(*   "w"      white space;  "x"  prose without braces and quotes;          *)
(*   "f"      a markdown fence, with or without the word json.             *)
(* A parsed object is empty, holds one member, or holds one nested object. *)
(***************************************************************************)
EmptyObject == [member |-> "none"]
Leaf(m) == [member |-> m]
Nested(v) == [member |-> "k", child |-> v]

NotSpace(t) == t # "w"
NoSpace(text) == SelectSeq(text, NotSpace)

NotParsed == [ok |-> FALSE]
Parsed(v) == [ok |-> TRUE, value |-> v]

\* The JSON grammar on the tokens: the object read from the front of s and
\* the tokens after it.
RECURSIVE ParseObj(_)
ParseObj(s) ==
  IF Len(s) < 2 \/ s[1] # "{" THEN [ok |-> FALSE]
  ELSE IF s[2] = "}" THEN [ok |-> TRUE, value |-> EmptyObject, rest |-> SubSeq(s, 3, Len(s))]
  ELSE IF s[2] \in {"m", "p"}
  THEN IF Len(s) >= 3 /\ s[3] = "}"
       THEN [ok |-> TRUE, value |-> Leaf(s[2]), rest |-> SubSeq(s, 4, Len(s))]
       ELSE [ok |-> FALSE]
  ELSE IF s[2] = "k"
  THEN LET inner == ParseObj(SubSeq(s, 3, Len(s)))
       IN  IF inner.ok /\ inner.rest # <<>> /\ Head(inner.rest) = "}"
           THEN [ok |-> TRUE, value |-> Nested(inner.value), rest |-> Tail(inner.rest)]
           ELSE [ok |-> FALSE]
  ELSE [ok |-> FALSE]

\* json.loads(text.strip()): white space between the tokens is skipped, and
\* nothing may follow the value.
json_loads(text) ==
  LET r == ParseObj(NoSpace(text))
  IN  IF r.ok /\ r.rest = <<>> THEN Parsed(r.value) ELSE NotParsed

\* for match in matches: try: return json.loads(match.strip())
RECURSIVE FirstParsed(_)
FirstParsed(matches) ==
  IF matches = <<>> THEN NotParsed
  ELSE IF json_loads(Head(matches)).ok THEN json_loads(Head(matches))
  ELSE FirstParsed(Tail(matches))

RECURSIVE SkipSpace(_, _)
SkipSpace(text, i) ==
  IF i <= Len(text) /\ text[i] = "w" THEN SkipSpace(text, i + 1) ELSE i

\* The lazy (\{.*?\}) of method 2: the first "}" from e on that white space
\* and a fence follow (0 when there is none).
RECURSIVE FencedEnd(_, _)
FencedEnd(text, e) ==
  IF e > Len(text) THEN 0
  ELSE IF text[e] = "}" /\ SkipSpace(text, e + 1) <= Len(text)
          /\ text[SkipSpace(text, e + 1)] = "f"
  THEN e
  ELSE FencedEnd(text, e + 1)

\* re.findall of the fenced pattern, fence \s* (\{.*?\}) \s* fence, with DOTALL.
RECURSIVE FencedMatches(_, _)
FencedMatches(text, i) ==
  IF i > Len(text) THEN <<>>
  ELSE LET j == SkipSpace(text, i + 1)
           e == FencedEnd(text, j + 1)
       IN  IF text[i] = "f" /\ j <= Len(text) /\ text[j] = "{" /\ e # 0
           THEN <<SubSeq(text, j, e)>> \o FencedMatches(text, SkipSpace(text, e + 1) + 1)
           ELSE FencedMatches(text, i + 1)

\* \{[^{}]*(?:\{[^{}]*\}[^{}]*)*\} from an opening brace: the position of the
\* brace that closes it, 0 when a third level opens or the text ends first.
RECURSIVE BraceScan(_, _, _)
BraceScan(text, pos, depth) ==
  IF pos > Len(text) THEN 0
  ELSE IF text[pos] = "{" THEN IF depth = 1 THEN BraceScan(text, pos + 1, 2) ELSE 0
  ELSE IF text[pos] = "}" THEN IF depth = 1 THEN pos ELSE BraceScan(text, pos + 1, 1)
  ELSE BraceScan(text, pos + 1, depth)

\* re.findall of that pattern: the matches from left to right, not overlapping.
RECURSIVE BraceMatches(_, _)
BraceMatches(text, i) ==
  IF i > Len(text) THEN <<>>
  ELSE LET e == IF text[i] = "{" THEN BraceScan(text, i + 1, 1) ELSE 0
       IN  IF e # 0 THEN <<SubSeq(text, i, e)>> \o BraceMatches(text, e + 1)
           ELSE BraceMatches(text, i + 1)

DropAt(s, k) == SubSeq(s, 1, k - 1) \o SubSeq(s, k + 1, Len(s))

\* matches.sort(key=len, reverse=True): the longest first, equal lengths in
\* the order found.
RECURSIVE LongestFirst(_)
LongestFirst(matches) ==
  IF matches = <<>> THEN <<>>
  ELSE LET first == CHOOSE i \in 1..Len(matches) :
                      /\ \A j \in 1..Len(matches) : Len(matches[j]) <= Len(matches[i])
                      /\ \A j \in 1..(i - 1) : Len(matches[j]) < Len(matches[i])
       IN  <<matches[first]>> \o LongestFirst(DropAt(matches, first))

\* re.sub(r'\s+', ' ', text)
RECURSIVE CollapseSpace(_)
CollapseSpace(text) ==
  IF Len(text) < 2 THEN text
  ELSE IF text[1] = "w" /\ text[2] = "w" THEN CollapseSpace(Tail(text))
  ELSE <<Head(text)>> \o CollapseSpace(Tail(text))

\* The quote substitution puts a backslash before every quote that another
\* quote follows: a token that holds quotes is no JSON afterwards ("q").
EscapeQuotes(text) ==
  [i \in 1..Len(text) |-> IF text[i] \in {"m", "p", "k"} THEN "q" ELSE text[i]]

clean_json_text(text) ==
  LET opening == {i \in 1..Len(text) : text[i] = "{"}
      from_first == IF opening = {} THEN <<>>
                    ELSE SubSeq(text, CHOOSE i \in opening : \A j \in opening : i <= j,
                                Len(text))
      closing == {i \in 1..Len(from_first) : from_first[i] = "}"}
      to_last == IF closing = {} THEN <<>>
                 ELSE SubSeq(from_first, 1, CHOOSE i \in closing : \A j \in closing : j <= i)
  IN  EscapeQuotes(CollapseSpace(to_last))

\* extract_key_values: of its five patterns the tokens can match the
\* patient_id one; the dict extracted, None when it is empty.
extract_key_values(text) ==
  IF \E i \in 1..Len(text) : text[i] = "p" THEN Parsed(Leaf("p")) ELSE NotParsed

\* The five methods of robust_json_parse.
Strategy(k, text) ==
  CASE k = 1 -> json_loads(text)
    [] k = 2 -> FirstParsed(FencedMatches(text, 1))
    [] k = 3 -> FirstParsed(LongestFirst(BraceMatches(text, 1)))
    [] k = 4 -> IF clean_json_text(text) = <<>> THEN NotParsed
                ELSE json_loads(clean_json_text(text))
    [] k = 5 -> extract_key_values(text)

\* Key-value extraction tried before the other four.
StrategyOrderExtractFirst == <<5, 1, 2, 3, 4>>
\* The order in which the body of robust_json_parse tries its methods.
StrategyOrder == <<1, 2, 3, 4, 5>>

ParseFailure(error, response_text) ==
  [has_error |-> TRUE, error |-> error, raw_response |-> response_text]

RECURSIVE TryStrategies(_, _)
TryStrategies(order, text) ==
  IF order = <<>> THEN ParseFailure("Failed to parse JSON from response", text)
  ELSE IF Strategy(Head(order), text).ok
  THEN [has_error |-> FALSE, value |-> Strategy(Head(order), text).value]
  ELSE TryStrategies(Tail(order), text)

robust_json_parse(response_text) ==
  IF NoSpace(response_text) = <<>> THEN ParseFailure("Empty response", response_text)
  ELSE TryStrategies(StrategyOrder, response_text)

(***************************************************************************)
(* The response texts the parser is given.                                 *)
(***************************************************************************)
Fragments ==
  {<<"x">>, <<"w">>, <<"f">>, <<"{">>, <<"}">>, <<"p">>,
   <<"{", "m", "}">>, <<"{", "w", "}">>,
   <<"{", "k", "{", "p", "}", "}">>,
   <<"{", "k", "{", "k", "{", "}", "}", "}">>}

RECURSIVE Texts(_)
Texts(n) ==
  IF n = 0 THEN {<<>>}
  ELSE Texts(n - 1) \cup {t \o f : t \in Texts(n - 1), f \in Fragments}

RobustJsonParse ==
  /\ parser.pc = "called"
  /\ parser' = [parser EXCEPT !.pc = "returned",
                              !.ret = robust_json_parse(parser.response_text)]
  /\ UNCHANGED <<calcVars, llmVars, cases, futures, results, batch, pipeline>>

InitParse ==
  /\ parser \in {[pc |-> "called", response_text |-> t, ret |-> NoResult] :
                   t \in Texts(MaxFragments)}
  /\ cases = <<>>
  /\ futures = <<>>
  /\ results = <<>>
  /\ batch = [pc |-> "unused", method |-> "none", max_workers |-> 0]
  /\ pipeline = PipelineUnused
  /\ CalculatorUnused
  /\ LLMUnused

NextParse == RobustJsonParse

SpecParse == InitParse /\ [][NextParse]_vars

\* json.dumps of an object, token by token.
RECURSIVE Dumps(_)
Dumps(v) ==
  IF v.member = "none" THEN <<"{", "}">>
  ELSE IF v.member = "k" THEN <<"{", "k">> \o Dumps(v.child) \o <<"}">>
  ELSE <<"{", v.member, "}">>

JsonObjects ==
  LET flat == {EmptyObject, Leaf("m"), Leaf("p")}
      two == flat \cup {Nested(v) : v \in flat}
  IN  two \cup {Nested(v) : v \in two}

\* The first of the five methods that succeeds on text, 0 when none does.
FirstSuccess(text) ==
  IF \A k \in 1..5 : ~Strategy(k, text).ok THEN 0
  ELSE CHOOSE k \in 1..5 :
         Strategy(k, text).ok /\ \A j \in 1..(k - 1) : ~Strategy(j, text).ok

\* C18: the parse returns the result of the first of the five methods, in
\* the order direct parse, fenced blocks, brace scan longest first,
\* normalization, key-value extraction, that succeeds; a strict JSON object
\* string comes back structurally equal, by the direct parse; and a failure
\* is returned only when all five fail, with the input as its raw text.
C18_FirstStrategyWins ==
  parser.pc = "returned" =>
    LET text == parser.response_text
        ret == parser.ret
        k == FirstSuccess(text)
    IN  /\ (k # 0 /\ NoSpace(text) # <<>>) =>
             /\ ~ret.has_error
             /\ ret.value = Strategy(k, text).value
        /\ \A v \in JsonObjects :
             NoSpace(text) = Dumps(v) =>
               /\ ~ret.has_error
               /\ ret.value = v
               /\ k = 1
        /\ ret.has_error =>
             /\ k = 0
             /\ ret.raw_response = text
        /\ k = 0 => ret.has_error

\* Two objects in prose: the direct parse and the fenced blocks fail, and the
\* brace scan returns the longer object although the shorter comes first.
C18_Witness ==
  /\ parser.pc = "returned"
  /\ parser.response_text = <<"{", "m", "}", "x", "{", "k", "{", "p", "}", "}">>
  /\ FirstSuccess(parser.response_text) = 3
  /\ parser.ret.value = Nested(Leaf("p"))

(***************************************************************************)
(* The unified code-level accuracy and the two tallies of corrections.     *)
(***************************************************************************)
\* C21: the unified code-level accuracy is the pre-review code accuracy plus
\* accepted AI corrections / total baseline codes (plus 0 when there are no
\* baseline codes), and the count of accepted AI corrections it uses is
\* manual_coding_analysis.ai_corrections of calculate_post_ai_review_accuracy
\* on the same review list.
C21_UnifiedCodeAccuracy ==
  UnifiedReturned =>
    LET post == calculate_post_ai_review_accuracy(original_df, partial_match_reviews)
        pre == calculate_pre_review_code_accuracy(original_df)
        accepted == post.manual_coding_analysis.ai_corrections
        total == pre.total_sutherland_codes
    IN  /\ Returned(post)
        /\ result.codes_corrected = accepted
        /\ RateEq(result.code_level_accuracy,
                  RateAdd(pre.overall_accuracy,
                          IF total > 0 THEN Div(accepted, total) ELSE Div(0, 1)))

(***************************************************************************)
(* The discrepancy classes of one code adjudication.                       *)
(***************************************************************************)
\* What one adjudication adds to <<baseline errors, accepted AI corrections>>.
C22_Class(e) ==
  LET baseline == e.sutherland_code # NoneVal /\ e.sutherland_code # ""
      ai == e.ai_code # NoneVal /\ e.ai_code # ""
  IN  IF baseline /\ ~ai /\ ~e.is_sutherland_correct THEN <<1, 0>>
      ELSE IF ai /\ ~baseline /\ e.is_ai_correct THEN <<0, 1>>
      ELSE IF baseline /\ ai /\ e.sutherland_code # e.ai_code
              /\ ~e.is_sutherland_correct /\ e.is_ai_correct THEN <<1, 1>>
      ELSE <<0, 0>>

C22_Sum(i) ==
  SeqSum([k \in 1..Len(partial_match_reviews) |->
            IF MatchedAt(k)
            THEN SeqSum([j \in 1..Len(ResolvedReview(k).analysis) |->
                           C22_Class(ResolvedReview(k).analysis[j])[i]])
            ELSE 0])

\* C22: every code adjudication of a review that the reconciliation works on
\* adds to baseline errors and accepted AI corrections what its one class
\* says (baseline-only and baseline wrong: 1, 0; AI-only and AI right: 0, 1;
\* different codes, baseline wrong and AI right: 1, 1; anything else: 0, 0),
\* so neither tally exceeds total_reviewed_codes.
C22_OneClassPerAdjudication ==
  PostReviewReturned =>
    LET m == result.manual_coding_analysis
    IN  /\ m.sutherland_errors = C22_Sum(1)
        /\ m.ai_corrections = C22_Sum(2)
        /\ m.sutherland_errors <= m.total_reviewed_codes
        /\ m.ai_corrections <= m.total_reviewed_codes

C22_Witness ==
  /\ PostReviewReturned
  /\ \E k \in 1..Len(partial_match_reviews) :
       MatchedAt(k) /\ ResolvedReview(k).analysis = <<Substitution, AICorrection>>
  /\ result.manual_coding_analysis.sutherland_errors = 1
  /\ result.manual_coding_analysis.ai_corrections = 2
  /\ result.manual_coding_analysis.total_reviewed_codes = 2

(***************************************************************************)
(* Error-marked results and the recovery pass, layer by layer.             *)
(***************************************************************************)
\* The list with entry k replaced by the record its raw text parses to.
C23_Delivered(k) ==
  [partial_match_reviews EXCEPT ![k] = partial_match_reviews[k].raw_response.parsed]

\* C23: in every layer computed from the partial-match reviews, an
\* error-marked result whose raw text parses to a record with an 'analysis'
\* field counts exactly as that record would without the error marker, and an
\* error-marked result with no raw text, unparsable raw text or no 'analysis'
\* field changes no count.
C23_RecoveredAsDelivered ==
  last_call \in ReviewLayers =>
    \A k \in 1..Len(partial_match_reviews) :
      (Defect(partial_match_reviews[k]) = "none" /\ partial_match_reviews[k].has_error) =>
        SameCounts(last_call, result,
                   LayerOf(last_call, original_df,
                           IF UsableAt(k) THEN C23_Delivered(k)
                           ELSE RemoveAt(partial_match_reviews, k),
                           no_match_reviews))

(***************************************************************************)
(* The JSON reminder and the counters of invoke_llm_with_json_retry.       *)
(***************************************************************************)
\* The attempt that worker r made last ended with a response that did not
\* parse to a usable record.
C24_LastAttemptFailedToParse(r) ==
  /\ r.attempt_log # <<>>
  /\ r.attempt_log[Len(r.attempt_log)].event = "response"
  /\ ParsedResponse(r.attempt_log[Len(r.attempt_log)].response).kind # "parsed"

\* C24: invoke_llm_with_json_retry appends the pure-JSON instruction only
\* when the attempt before ended in a failure to parse the response: never on
\* the first attempt, and never on an attempt that follows a failure of
\* invoke_llm itself.
C24_ReminderOnlyAfterParseFailure ==
  [][\A w \in DOMAIN worker :
       worker'[w].reminders > worker[w].reminders
         => C24_LastAttemptFailedToParse(worker[w])]_vars

\* The responses of the log that satisfy P.
C25_Count(log, P(_)) ==
  Cardinality({i \in 1..Len(log) : log[i].event = "response" /\ P(log[i].response)})
C25_Parsed(response) == ParsedResponse(response).kind # "parse_failure"
C25_FailedToParse(response) == ParsedResponse(response).kind = "parse_failure"

\* C25: when a single caller's first invoke_llm_with_json_retry call has
\* returned, api_calls_made is the number of invoke_llm attempts the call
\* made, successful_calls the number of responses that parsed, and
\* failed_calls the number of responses that failed to parse.
C25_CountersMatchAttempts ==
  \A w \in DOMAIN worker :
    LET r == worker[w]
    IN  RetryReturned(r) =>
          /\ api_calls_made = r.invoke_calls
          /\ successful_calls = C25_Count(r.attempt_log, C25_Parsed)
          /\ failed_calls = C25_Count(r.attempt_log, C25_FailedToParse)

(***************************************************************************)
(* The tallies of analyze_no_match_reviews.                                *)
(***************************************************************************)
NoMatchAnalysisReturned == last_call = "analyze_no_match_reviews" /\ Returned(result)

\* The results of the list without an error marker that satisfy P.
C26_Count(P(_)) ==
  Cardinality({k \in 1..Len(no_match_reviews) :
                 ~no_match_reviews[k].has_error /\ P(no_match_reviews[k])})
C26_Any(review) == TRUE
C26_Partial(review) == review.could_be_partial_match
C26_Complete(review) == review.could_be_complete_match
C26_AIBetter(review) ==
  review.coding_accuracy_score.present
  /\ review.coding_accuracy_score.ai_score > review.coding_accuracy_score.sutherland_score
C26_BaselineBetter(review) ==
  review.coding_accuracy_score.present
  /\ review.coding_accuracy_score.sutherland_score > review.coding_accuracy_score.ai_score

\* C26: analyze_no_match_reviews counts only results without an error
\* marker; each upgrade flag has its own tally and potential_upgrades is their
\* sum; ai_better_cases + sutherland_better_cases <= successful_reviews <=
\* total_no_match_cases; and review_success_rate is successful_reviews /
\* total_no_match_cases, 0 for an empty list.
C26_NoMatchTallies ==
  NoMatchAnalysisReturned =>
    /\ result.total_no_match_cases = Len(no_match_reviews)
    /\ result.successful_reviews = C26_Count(C26_Any)
    /\ result.upgrade_potential.to_partial_match = C26_Count(C26_Partial)
    /\ result.upgrade_potential.to_complete_match = C26_Count(C26_Complete)
    /\ result.potential_upgrades
         = result.upgrade_potential.to_partial_match
           + result.upgrade_potential.to_complete_match
    /\ result.ai_better_cases = C26_Count(C26_AIBetter)
    /\ result.sutherland_better_cases = C26_Count(C26_BaselineBetter)
    /\ result.ai_better_cases + result.sutherland_better_cases <= result.successful_reviews
    /\ result.successful_reviews <= result.total_no_match_cases
    /\ RateEq(result.review_success_rate,
              IF Len(no_match_reviews) > 0
              THEN Div(result.successful_reviews, Len(no_match_reviews)) ELSE Div(0, 1))

\* An error-marked result with both flags set next to a parsed one with both.
C26_Witness ==
  /\ NoMatchAnalysisReturned
  /\ Len(no_match_reviews) = 2
  /\ \E k \in 1..2 : /\ no_match_reviews[k].has_error
                     /\ no_match_reviews[k].could_be_partial_match
                     /\ no_match_reviews[k].could_be_complete_match
  /\ result.potential_upgrades = 2
  /\ result.successful_reviews = 1
  /\ result.ai_better_cases = 1
  /\ RateEq(result.review_success_rate, Div(1, 2))

(***************************************************************************)
(* The promotion audit log against the category changes.                   *)
(***************************************************************************)
\* The rows whose category was Partial Match and is another one after review.
C27_Promoted ==
  {i \in 1..Len(original_df) :
     /\ original_df[i].match = "Partial Match"
     /\ result.reviewed_dataframe[i].match # "Partial Match"}

C27_RecordsOf(i) ==
  {j \in 1..Len(result.changes_made) :
     result.changes_made[j].patient_id = original_df[i].patient_id}

\* C27: partial_to_complete_conversions = number of records in changes_made
\* = number of patients whose category changed from Partial Match
\* = complete_matches after review - complete_matches before; each promoted
\* patient has exactly one record, and every record's original_match is the
\* original category of its patient.
C27_AuditLogConsistent ==
  PostReviewReturned =>
    /\ result.improvements.partial_to_complete_conversions = Len(result.changes_made)
    /\ Len(result.changes_made) = Cardinality(C27_Promoted)
    /\ Cardinality(C27_Promoted)
         = result.post_review_metrics.complete_matches
           - CountMatch(original_df, "Complete Match")
    /\ \A i \in C27_Promoted : Cardinality(C27_RecordsOf(i)) = 1
    /\ \A i \in 1..Len(original_df) :
         \A j \in C27_RecordsOf(i) :
           result.changes_made[j].original_match = original_df[i].match

(***************************************************************************)
(* Step 2 of the pipeline: classify_missed_codes asks for one              *)
(* classification per unique missed code, step_2_classify_codes prints the *)
(* summary, and calculate_code_importance_metrics tallies the results.     *)
(* cases holds missed_codes, results the list classify_missed_codes builds,*)
(* and pipeline the summary counts with a log of what each request got.    *)
(***************************************************************************)
MissedCodeUniverse == {"A", "B", "C"}

\* A parsed response: a JSON object whose 'classification' is c.
ClassifiedAs(c) ==
  [has_error |-> FALSE, kind |-> "parsed", content |-> c, raw_response |-> ""]

\* What invoke_llm_with_json_retry can hand back to classify_missed_codes.
ClassificationOutcomes ==
  {ClassifiedAs(c) : c \in {"important", "unimportant"}}
  \cup {ParsedResponse(r) : r \in {x \in Responses : x.kind \notin {"object", "scalar"}}}
  \cup {ApiErrorResult}

\* The body of the `for code in missed_codes` loop: the dict appended for code.
\* A response without 'error' is appended with original_code set; a dict with
\* 'error' gives the fallback dict; a list holding "error" makes response.get
\* raise, and the except branch appends the API-error dict.
classify_missed_code(code, response) ==
  IF ~response.has_error
  THEN [code |-> code, classification |-> response.content, category |-> "classified",
        original_code |-> code]
  ELSE IF response.kind = "error_array"
  THEN [code |-> code, classification |-> "error", category |-> "api_error",
        original_code |-> code]
  ELSE [code |-> code, classification |-> "unimportant", category |-> "parsing_error",
        original_code |-> code]

calculate_code_importance_metrics(classification_results) ==
  [raised |-> "none",
   important_missed |-> CountClassified(classification_results, "important"),
   unimportant_missed |-> CountClassified(classification_results, "unimportant")]

\* step_2_classify_codes calls classify_missed_codes: results = [].
Step2ClassifyCodes ==
  /\ pipeline.pc = "step_2"
  /\ results' = <<>>
  /\ pipeline' = [pipeline EXCEPT !.pc = "classify_missed_codes", !.responses = <<>>]
  /\ UNCHANGED <<calcVars, llmVars, cases, futures, batch, parser>>

\* One pass of the loop of classify_missed_codes.
ClassifyCode ==
  /\ pipeline.pc = "classify_missed_codes"
  /\ Len(results) < Len(cases)
  /\ \E response \in ClassificationOutcomes :
       /\ results' = Append(results, classify_missed_code(cases[Len(results) + 1], response))
       /\ pipeline' = [pipeline EXCEPT !.responses = Append(@, response)]
  /\ UNCHANGED <<calcVars, llmVars, cases, futures, batch, parser>>

\* classify_missed_codes returned: the three counts of the summary.
Step2Summary ==
  /\ pipeline.pc = "classify_missed_codes"
  /\ Len(results) = Len(cases)
  /\ pipeline' = [pipeline EXCEPT
                    !.pc = "step_2_done",
                    !.important_count = CountClassified(results, "important"),
                    !.unimportant_count = CountClassified(results, "unimportant"),
                    !.error_count = CountClassified(results, "error")
                                    + CountClassified(results, "parsing_error")]
  /\ UNCHANGED <<calcVars, llmVars, cases, futures, results, batch, parser>>

\* Step 4 hands the classification results to the calculator.
CalculateCodeImportanceMetrics ==
  /\ pipeline.pc = "step_2_done"
  /\ last_call = "none"
  /\ last_call' = "calculate_code_importance_metrics"
  /\ result' = calculate_code_importance_metrics(results)
  /\ UNCHANGED <<original_df, partial_match_reviews, no_match_reviews, previous_result,
                 llmVars, batchVars>>

InitClassify ==
  /\ cases \in {q \in SeqsUpTo(MissedCodeUniverse, MaxMissedCodes) : NoDuplicates(q)}
  /\ futures = <<>>
  /\ results = <<>>
  /\ batch = [pc |-> "unused", method |-> "none", max_workers |-> 0]
  /\ pipeline = [pc |-> "step_2", skip_review |-> FALSE, skip_no_match_review |-> FALSE,
                 responses |-> <<>>, important_count |-> 0, unimportant_count |-> 0,
                 error_count |-> 0]
  /\ parser = ParserUnused
  /\ CalculatorUnused
  /\ LLMUnused

NextClassify ==
  \/ Step2ClassifyCodes
  \/ ClassifyCode
  \/ Step2Summary
  \/ CalculateCodeImportanceMetrics

SpecClassify == InitClassify /\ [][NextClassify]_vars

\* The request for a code failed: invoke_llm raised on every attempt, or the
\* last response could not be parsed.
ClassificationFailed(response) == response.kind \in {"api_error", "parse_failure"}

C28_Failed == {k \in 1..Len(results) : ClassificationFailed(pipeline.responses[k])}

\* C28: once step 2 and calculate_code_importance_metrics are done, a missed
\* code whose classification request failed is in neither the important nor
\* the unimportant tally and is in the Errors/Unknown count of the summary,
\* and important + unimportant + errors is the number of codes submitted.
C28_FailedClassificationVisible ==
  last_call = "calculate_code_importance_metrics" =>
    /\ \A k \in C28_Failed : results[k].classification \notin {"important", "unimportant"}
    /\ result.important_missed + result.unimportant_missed
         = CountClassified(results, "important") + CountClassified(results, "unimportant")
    /\ result.important_missed + result.unimportant_missed <= Len(cases) - Cardinality(C28_Failed)
    /\ pipeline.error_count >= Cardinality(C28_Failed)
    /\ pipeline.important_count + pipeline.unimportant_count + pipeline.error_count
         = Len(cases)

(***************************************************************************)
(* The endpoint cursor under interleaved invoke_llm calls.                 *)
(***************************************************************************)
\* No thread but w has called invoke_llm.
C29_Sole(w) == \A v \in DOMAIN worker \ {w} : worker[v] = IdleWorker
C29_Last(seq) == seq[Len(seq)]
\* No invoke_llm call is under way, and one has returned a response.
C29_BetweenCalls ==
  /\ \A w \in DOMAIN worker : worker[w].pc \in {"idle", "returned", "raised"}
  /\ \E w \in DOMAIN worker : worker[w].pc = "returned"

\* C29: under any interleaving of invoke_llm calls the cursor is an index of
\* llm_deployments; it changes only in the rotation that follows a thread's
\* failed attempt, so a call that succeeds leaves it as it is, and between
\* calls the endpoint the next call starts at is one on which a call that
\* returned had succeeded; and for a single caller a sweep in which every
\* endpoint fails ends with the cursor where the call started.
C29_CursorDiscipline ==
  [][/\ current_llm_index \in Deployments
     /\ current_llm_index' \in Deployments
     /\ current_llm_index' # current_llm_index =>
          \E w \in DOMAIN worker :
            /\ worker[w].pc = "rotate_write"
            /\ worker[w].attempts = worker[w].rotations + 1
            /\ worker'[w].rotations = worker[w].rotations + 1
     /\ \A w \in DOMAIN worker :
          /\ (worker[w].pc = "try" /\ worker'[w].pc = "returned") =>
               current_llm_index' = current_llm_index
          /\ (C29_Sole(w)' /\ worker'[w].pc = "sleep") =>
               current_llm_index' = worker'[w].started_at
     /\ C29_BetweenCalls' =>
          \E w \in DOMAIN worker :
            /\ worker'[w].pc = "returned"
            /\ llm' = C29_Last(worker'[w].sweep_log)]_vars

(***************************************************************************)
(* Termination of invoke_llm_with_json_retry.  Every step of a call is     *)
(* taken eventually: an endpoint attempt returns or fails, and a sleep     *)
(* ends.                                                                   *)
(***************************************************************************)
SpecInvokeFair == SpecInvoke /\ WF_vars(NextInvoke)

C30_InRetry(r) == r.caller = "json" \/ r.pc = "attempt"

\* What holds all through a call of invoke_llm_with_json_retry.
C30_Bounded ==
  \A w \in DOMAIN worker :
    LET r == worker[w]
    IN  C30_InRetry(r) =>
          /\ r.pc # "raised"
          /\ r.invoke_calls <= max_json_retries + 1
          /\ r.endpoint_attempts <= (max_json_retries + 1) * max_cycles * NumDeployments
          /\ total_sleep_time <= (max_json_retries + 1) * max_cycles * SweepSleepSeconds
          /\ r.pc = "done" =>
               /\ r.ret # NoReturn
               /\ r.ret.kind \in {"parsed", "parse_failure", "error_object",
                                  "error_array", "api_error"}
               /\ EveryEndpointAlwaysFails =>
                    /\ r.ret = ApiErrorResult
                    /\ r.endpoint_attempts = (max_json_retries + 1) * max_cycles * NumDeployments
                    /\ total_sleep_time = (max_json_retries + 1) * max_cycles * SweepSleepSeconds

\* C30: every call of invoke_llm_with_json_retry ends, and it ends by
\* returning a record, never by raising; it makes at most
\* (max_json_retries + 1) * 3 * N endpoint attempts and at most
\* (max_json_retries + 1) * 3 sweep sleeps; and when every endpoint always
\* fails it returns the API-error record.
C30_RetryTerminates ==
  /\ []C30_Bounded
  /\ \A w \in SingleCaller :
       (worker[w].pc = "attempt") ~> (worker[w].pc = "done")

\* A call that consumed every attempt it is allowed and returned the
\* API-error record.
C30_Witness ==
  \E w \in DOMAIN worker :
    /\ worker[w].pc = "done"
    /\ max_json_retries = DefaultMaxJsonRetries
    /\ worker[w].ret = ApiErrorResult
    /\ worker[w].endpoint_attempts = (max_json_retries + 1) * max_cycles * NumDeployments
    /\ total_sleep_time = (max_json_retries + 1) * max_cycles * SweepSleepSeconds

====
